---- MODULE Spec2Model ----
(***************************************************************************)
(* A model of the yokoiboy emulator core: the machine step (interrupt      *)
(* dispatch, CPU fetch/execute, low-power filler), the timer, the MMU's    *)
(* MBC1 banking and the clock fed to the PPU.                              *)
(*                                                                         *)
(* The machine is one record, `machine`, shaped like the Rust struct; the  *)
(* operators below take a machine (or one of its subsystems) and return    *)
(* the updated one, as the Rust functions mutate `&mut Machine`.  Fields   *)
(* named obs_* are history fields: they record what an operation did and   *)
(* are never read by the modelled code.                                    *)
(***************************************************************************)
EXTENDS Integers, Sequences, FiniteSets, TLC

VARIABLES
    machine,    \* the Machine (machine.rs:22-91)
    last,       \* history: what the last operation did
    steps,      \* history: number of operations performed so far
    build,      \* "debug" | "release": whether integer overflow panics
    program,    \* the instructions the guest program is made of
    app         \* the ApplicationState around the machine: the driver

vars == <<machine, last, steps, build, program, app>>

----------------------------------------------------------------------------
(* Bounds of the model *)

MaxSteps == 3
MaxTimerOps == 5
MaxBankOps == 3

----------------------------------------------------------------------------
(* Fixed-width arithmetic *)

U8(x) == x % 256
U16(x) == x % 65536

RECURSIVE AndBits(_, _, _)
AndBits(a, b, n) ==
    IF n = 0 THEN 0
    ELSE (a % 2) * (b % 2) + 2 * AndBits(a \div 2, b \div 2, n - 1)

RECURSIVE OrBits(_, _, _)
OrBits(a, b, n) ==
    IF n = 0 THEN 0
    ELSE (IF (a % 2) + (b % 2) > 0 THEN 1 ELSE 0)
         + 2 * OrBits(a \div 2, b \div 2, n - 1)

And8(a, b) == AndBits(a, b, 8)
Or8(a, b) == OrBits(a, b, 8)
Not8(a) == 255 - a
Shl8(a, n) == U8(a * (2 ^ n))

is_bit_set(value, bit_position) == (value \div (2 ^ bit_position)) % 2 = 1

set_bit(value, bit_position) ==
    IF is_bit_set(value, bit_position) THEN value
    ELSE value + 2 ^ bit_position

unset_bit(value, bit_position) ==
    IF is_bit_set(value, bit_position) THEN value - 2 ^ bit_position
    ELSE value

higher_u8(from) == U8(from \div 256)
lower_u8(from) == U8(from)
as_u16(lower_byte, higher_byte) == higher_byte * 256 + lower_byte

----------------------------------------------------------------------------
(* Interrupt controller: cpu/interrupts.rs *)

VBLANK_INTERRUPT_BIT == 0
STAT_INTERRUPT_BIT == 1
TIMER_INTERRUPT_BIT == 2
SERIAL_INTERRUPT_BIT == 3
JOYPAD_INTERRUPT_BIT == 4

Interrupts_new ==
    [interrupt_master_enable |-> FALSE,
     interrupt_master_enable_delayed |-> FALSE,
     interrupt_enable |-> 0,
     interrupt_flag |-> 0]

\* The bits of IE & IF & 0x1F.
conjoined_bits(i) ==
    {n \in 0..4 : is_bit_set(i.interrupt_enable, n)
                  /\ is_bit_set(i.interrupt_flag, n)}

lowest(hits) == {i \in hits : \A j \in hits : i <= j}

\* A wrong arbitration: the highest pending bit wins.
should_handle_interrupt_highest(m) ==
    IF ~m.interrupts.interrupt_master_enable THEN {}
    ELSE {i \in conjoined_bits(m.interrupts) :
             \A j \in conjoined_bits(m.interrupts) : i >= j}

\* Returns the bit index of the interrupt to handle as an Option: {} is None,
\* {i} is Some(i).  0 has most priority, 4 has least.
should_handle_interrupt(m) ==
    IF ~m.interrupts.interrupt_master_enable THEN {}
    ELSE lowest(conjoined_bits(m.interrupts))

interrupt_handler_offset(interrupt_bit) ==
    CASE interrupt_bit = VBLANK_INTERRUPT_BIT -> 64
      [] interrupt_bit = STAT_INTERRUPT_BIT -> 72
      [] interrupt_bit = TIMER_INTERRUPT_BIT -> 80
      [] interrupt_bit = SERIAL_INTERRUPT_BIT -> 88
      [] interrupt_bit = JOYPAD_INTERRUPT_BIT -> 96

is_interrupt_pending(m) ==
    And8(And8(m.interrupts.interrupt_enable, 31),
         And8(m.interrupts.interrupt_flag, 31)) # 0

request_interrupt(i, interrupt_bit) ==
    [i EXCEPT !.interrupt_flag = Or8(@, Shl8(1, interrupt_bit))]

----------------------------------------------------------------------------
(* Timer: cpu/timers.rs *)

DIVIDE_REGISTER_ADDRESS == 65284
TIMER_COUNTER_ADDRESS == 65285
TIMER_MODULO_ADDRESS == 65286
TIMER_CONTROL_ADDRESS == 65287

Timers_new ==
    [divide_register |-> 0,
     divide_register_to_be_reset |-> FALSE,
     divide_register_dots |-> 0,
     timer_counter |-> 0,
     timer_counter_dots |-> 0,
     timer_modulo |-> 0,
     timer_control |-> 0,
     \* history fields
     obs_dots |-> 0,        \* calls of tick
     obs_overflows |-> 0,   \* times timer_counter was incremented from 0xFF
     obs_requests |-> 0,    \* times tick requested the timer interrupt
     obs_resets |-> 0,      \* times ticks consumed the reset-pending flag
     obs_divider_at_reset |-> 0,  \* divide_register as the last reset found it
     \* dots ticked with the enable bit set since timer_counter was last
     \* incremented or timer_control was last written
     obs_quiet_dots |-> 0]

\* A wrong rate table: the periods of 0b01 and 0b10 are exchanged.
get_timer_counter_threshold_swapped(t) ==
    CASE t.timer_control % 4 = 0 -> 1024
      [] t.timer_control % 4 = 1 -> 64
      [] t.timer_control % 4 = 2 -> 16
      [] t.timer_control % 4 = 3 -> 256

get_timer_counter_threshold(t) ==
    CASE t.timer_control % 4 = 0 -> 1024
      [] t.timer_control % 4 = 1 -> 16
      [] t.timer_control % 4 = 2 -> 64
      [] t.timer_control % 4 = 3 -> 256

\* The divider's part of a tick (timers.rs:52-56).
tick_divider(t) ==
    IF t.divide_register_dots + 1 = 256
    THEN [t EXCEPT !.divide_register_dots = 0,
                   !.divide_register = U8(@ + 1),
                   !.obs_dots = @ + 1]
    ELSE [t EXCEPT !.divide_register_dots = @ + 1,
                   !.obs_dots = @ + 1]

\* A wrong overflow: TIMA is left at zero and reloaded by a later tick.
counter_overflow_late(s) ==
    [s EXCEPT !.timers.obs_requests = @ + 1,
              !.interrupts = request_interrupt(@, TIMER_INTERRUPT_BIT)]

\* timer_counter has wrapped to zero (timers.rs:64-65).
counter_overflow(s) ==
    [s EXCEPT !.timers.timer_counter = s.timers.timer_modulo,
              !.timers.obs_requests = @ + 1,
              !.interrupts = request_interrupt(@, TIMER_INTERRUPT_BIT)]

\* The test after the increment (timers.rs:63).
counter_check_overflow(s) ==
    IF s.timers.timer_counter = 0 THEN counter_overflow(s) ELSE s

\* timer_counter_dots has reached the threshold (timers.rs:61-62).
counter_increment(s) ==
    counter_check_overflow(
        [s EXCEPT !.timers.timer_counter_dots = 0,
                  !.timers.timer_counter = U8(@ + 1),
                  !.timers.obs_quiet_dots = 0,
                  !.timers.obs_overflows =
                      IF s.timers.timer_counter = 255 THEN @ + 1 ELSE @])

\* The test of timers.rs:60, on the dots before the increment of line 59.
counter_period_elapsed(t) ==
    U16(t.timer_counter_dots + 1) = get_timer_counter_threshold(t)

\* The counter's part of a tick (timers.rs:58-68).  `b` is the build: the
\* u16 `timer_counter_dots += 1` panics in a debug build and wraps in a
\* release one.
tick_counter(s, b) ==
    IF ~is_bit_set(s.timers.timer_control, 2) THEN s
    ELSE IF s.timers.timer_counter_dots = 65535 /\ b = "debug"
    THEN [s EXCEPT !.panicked = TRUE]
    ELSE IF counter_period_elapsed(s.timers) THEN counter_increment(s)
    ELSE [s EXCEPT !.timers.timer_counter_dots = U16(@ + 1),
                   !.timers.obs_quiet_dots = @ + 1]

\* One dot.  s holds the timers, the interrupts and the panicked flag.
Timers_tick(s, b) ==
    IF s.panicked THEN s
    ELSE tick_counter([s EXCEPT !.timers = tick_divider(@)], b)

RECURSIVE Timers_tick_loop(_, _, _)
Timers_tick_loop(s, b, dots) ==
    IF dots = 0 THEN s ELSE Timers_tick_loop(Timers_tick(s, b), b, dots - 1)

\* The deferred reset at the end of ticks (timers.rs:75-78).
reset_divider_if_marked(s) ==
    IF s.panicked \/ ~s.timers.divide_register_to_be_reset THEN s
    ELSE [s EXCEPT !.timers.divide_register_to_be_reset = FALSE,
                   !.timers.divide_register = 0,
                   !.timers.obs_divider_at_reset = s.timers.divide_register,
                   !.timers.obs_resets = @ + 1]

Timers_ticks(s, b, dots) ==
    reset_divider_if_marked(Timers_tick_loop(s, b, dots))

Timers_read_u8(t, address) ==
    CASE address = DIVIDE_REGISTER_ADDRESS -> t.divide_register
      [] address = TIMER_COUNTER_ADDRESS -> t.timer_counter
      [] address = TIMER_MODULO_ADDRESS -> t.timer_modulo
      [] address = TIMER_CONTROL_ADDRESS -> t.timer_control

\* A wrong divider write: the register is cleared by the write itself.
write_divider_at_once(t) ==
    [t EXCEPT !.divide_register = 0, !.divide_register_to_be_reset = TRUE]

\* timers.rs:93-99: the register is marked, to be reset after the current
\* instruction's t-cycles.
write_divider(t) == [t EXCEPT !.divide_register_to_be_reset = TRUE]

Timers_write_u8(t, address, value) ==
    CASE address = DIVIDE_REGISTER_ADDRESS -> write_divider(t)
      [] address = TIMER_COUNTER_ADDRESS -> [t EXCEPT !.timer_counter = value]
      [] address = TIMER_MODULO_ADDRESS -> [t EXCEPT !.timer_modulo = value]
      [] address = TIMER_CONTROL_ADDRESS ->
            [t EXCEPT !.timer_control = value, !.obs_quiet_dots = 0]

----------------------------------------------------------------------------
(* Registers: registers.rs, conditions.rs.  R8, R16, Flag and Condition      *)
(* values are the strings of their names.                                   *)

u16_from_u8s(higher, lower) == higher * 256 + lower

Registers_new == [af |-> 0, bc |-> 0, de |-> 0, hl |-> 0, sp |-> 0, pc |-> 0]

read_a(r) == higher_u8(r.af)
read_f(r) == lower_u8(r.af)
write_a(r, a) == [r EXCEPT !.af = u16_from_u8s(a, read_f(r))]
write_f(r, f) == [r EXCEPT !.af = u16_from_u8s(read_a(r), f)]

read_r8(r, r8) ==
    CASE r8 = "A" -> higher_u8(r.af)
      [] r8 = "B" -> higher_u8(r.bc)
      [] r8 = "C" -> lower_u8(r.bc)
      [] r8 = "D" -> higher_u8(r.de)
      [] r8 = "E" -> lower_u8(r.de)
      [] r8 = "F" -> lower_u8(r.af)
      [] r8 = "H" -> higher_u8(r.hl)
      [] r8 = "L" -> lower_u8(r.hl)

write_r8(r, r8, value) ==
    CASE r8 = "A" -> [r EXCEPT !.af = u16_from_u8s(value, lower_u8(r.af))]
      [] r8 = "B" -> [r EXCEPT !.bc = u16_from_u8s(value, lower_u8(r.bc))]
      [] r8 = "C" -> [r EXCEPT !.bc = u16_from_u8s(higher_u8(r.bc), value)]
      [] r8 = "D" -> [r EXCEPT !.de = u16_from_u8s(value, lower_u8(r.de))]
      [] r8 = "E" -> [r EXCEPT !.de = u16_from_u8s(higher_u8(r.de), value)]
      [] r8 = "F" -> [r EXCEPT !.af = u16_from_u8s(higher_u8(r.af), value)]
      [] r8 = "H" -> [r EXCEPT !.hl = u16_from_u8s(value, lower_u8(r.hl))]
      [] r8 = "L" -> [r EXCEPT !.hl = u16_from_u8s(higher_u8(r.hl), value)]

read_r16(r, r16) ==
    CASE r16 = "AF" -> r.af
      [] r16 = "BC" -> r.bc
      [] r16 = "DE" -> r.de
      [] r16 = "HL" -> r.hl
      [] r16 = "SP" -> r.sp
      [] r16 = "PC" -> r.pc

write_r16(r, r16, value) ==
    CASE r16 = "AF" -> [r EXCEPT !.af = value]
      [] r16 = "BC" -> [r EXCEPT !.bc = value]
      [] r16 = "DE" -> [r EXCEPT !.de = value]
      [] r16 = "HL" -> [r EXCEPT !.hl = value]
      [] r16 = "SP" -> [r EXCEPT !.sp = value]
      [] r16 = "PC" -> [r EXCEPT !.pc = value]

\* Flag::get_bit
Flag_get_bit(flag) ==
    CASE flag = "Z" -> 7 [] flag = "N" -> 6 [] flag = "H" -> 5 [] flag = "C" -> 4

read_flag(r, flag) == is_bit_set(read_f(r), Flag_get_bit(flag))

write_flag(r, flag, value) ==
    IF value THEN write_f(r, set_bit(read_f(r), Flag_get_bit(flag)))
    ELSE write_f(r, unset_bit(read_f(r), Flag_get_bit(flag)))

\* `value as u8` of a bool
as_u8(value) == IF value THEN 1 ELSE 0

\* clean_f keeps bits 0-3 of F; the four flags are or-ed in above them.
znhc(r, z, n, h, c) ==
    write_f(r, (read_f(r) % 16) + as_u8(z) * 128 + as_u8(n) * 64
                  + as_u8(h) * 32 + as_u8(c) * 16)

\* Condition::holds
holds(cc, r) ==
    CASE cc = "C" -> read_flag(r, "C")
      [] cc = "Z" -> read_flag(r, "Z")
      [] cc = "NC" -> ~read_flag(r, "C")
      [] cc = "NZ" -> ~read_flag(r, "Z")

----------------------------------------------------------------------------
(* Cartridge and boot ROM contents: the byte buffers given at construction.  *)
(* The bytes are a fixed pattern in which every bank differs from every     *)
(* other at each offset, and the boot ROM differs from the cartridge.       *)

BANK_SIZE == 16384

game_rom(offset) == U8(offset * 31 + (offset \div BANK_SIZE) * 7 + 5)
boot_rom(address) == U8(address * 31 + 133)

----------------------------------------------------------------------------
(* Machine and address space: machine.rs *)

EmptyMem == [a \in {} |-> 0]

\* [0; 8]
EmptyTileRow == [i \in 1..8 |-> 0]

\* PPU::new (ppu.rs:153-199).  The VRAM, OAM and WRAM banks live in `mem`;
\* the rendered surfaces and the debugger's per-frame records are left out.
PPU_new(fix_ly) ==
    [drawn_pixels_on_current_row |-> 0,
     fix_ly_for_gb_doctor |-> fix_ly,
     last_stat_line |-> 0,
     scanline_dots |-> 0,
     state |-> "OAMScan",
     lcd_control |-> 0,
     lcd_status |-> 2,
     lcd_y_compare |-> 0,
     lcd_y_coord |-> 0,
     scx |-> 0,
     scy |-> 0,
     \* history: calls of tick, and the interrupt requests it made
     obs_dots |-> 0,
     obs_stat_requests |-> 0,
     obs_vblank_requests |-> 0,
     \* history: the last pixel written to lcd_pixels and what it was made of
     obs_pixel |-> {}]

BackgroundOrWindowFetcher_new ==
    [state |-> "GetTileDelay",
     fifo |-> << >>,
     row_of_pixel_within_tile |-> 0,
     tile_id |-> 0,
     vram_tile_column |-> 0,
     tile_row_data |-> EmptyTileRow,
     \* history: the FIFO's length before and after the last push
     obs_push |-> {}]

\* `sprite` is an Option: the empty set or a singleton.
ObjectFetcher_new ==
    [state |-> "GetTileDelay",
     fifo |-> << >>,
     sprite |-> {},
     pixel_index_in_row |-> 0,
     tile_row_data |-> EmptyTileRow,
     selected_objects |-> << >>,
     \* history: the FIFO's length before and after the last push
     obs_push |-> {}]

Fetcher_new == [fetching_for |-> "BackgroundOrWindowFIFO"]

read_ly(ppu) == IF ppu.fix_ly_for_gb_doctor THEN 144 ELSE ppu.lcd_y_coord

Machine_new(rom_information) ==
    [banking_mode |-> "Rom",
     is_ram_enabled |-> FALSE,
     loram_bank |-> 1,
     ram_or_hiram_bank |-> 0,
     rom_information |-> rom_information,
     \* memory.game_rom.len(): the image holds the banks its header declares
     game_rom_len |-> rom_information.rom_banks * BANK_SIZE,
     \* memory.game_rom: the bytes that differ from the image loaded at
     \* construction, by offset (none after construction)
     game_rom_writes |-> EmptyMem,
     t_cycle_count |-> 0,
     dmg_boot_rom |-> 0,
     cpu |-> [low_power_mode |-> FALSE,
              registers |-> Registers_new],
     interrupts |-> Interrupts_new,
     timers |-> Timers_new,
     \* fix_ly (the LY override of the GB Doctor log mode) is off
     ppu |-> PPU_new(FALSE),
     background_window_fetcher |-> BackgroundOrWindowFetcher_new,
     object_fetcher |-> ObjectFetcher_new,
     pixel_fetcher |-> Fetcher_new,
     inputs_register |-> 0,
     \* VRAM, external RAM, WRAM, OAM, HRAM and the plain I/O registers, by
     \* address; an address that was never written holds its initial 0
     mem |-> EmptyMem,
     \* the process aborted (panic!, todo!, index out of bounds, overflow)
     panicked |-> FALSE,
     \* history: the bus writes of the current operation, in order
     obs_writes |-> << >>,
     \* history: the guest has written to 0xFF50
     obs_ff50_written |-> FALSE]

is_dmg_boot_rom_on(m) == m.dmg_boot_rom = 0

load(m, address) == IF address \in DOMAIN m.mem THEN m.mem[address] ELSE 0

store(m, address, value) ==
    [m EXCEPT !.mem = (address :> value) @@ m.mem]

\* The result of a read: [value, panicked].
Val(v) == [value |-> v, panicked |-> FALSE]
Abort == [value |-> 0, panicked |-> TRUE]

\* memory.game_rom[offset]
rom_byte(m, offset) ==
    IF offset \in DOMAIN m.game_rom_writes THEN m.game_rom_writes[offset]
    ELSE game_rom(offset)

rom_at(m, offset) ==
    IF offset < m.game_rom_len THEN Val(rom_byte(m, offset)) ELSE Abort

\* The bank a read of 0x4000-0x7FFF selects (machine.rs:182-185).
bank_number(m) ==
    IF m.banking_mode = "Rom"
    THEN Or8(m.loram_bank, Shl8(m.ram_or_hiram_bank, 5))
    ELSE m.loram_bank

\* Addresses neither read_u8 nor write_u8 has an arm for.
Unmapped ==
    {65356, 65358} \cup (65361..65383) \cup (65388..65391) \cup {65393}
    \cup (65398..65406)

RECURSIVE read_u8(_, _)
read_u8(m, address) ==
    IF is_dmg_boot_rom_on(m) /\ address <= 255 THEN Val(boot_rom(address))
    ELSE CASE address \in 0..16383 -> rom_at(m, address)
      [] address \in 16384..32767 ->
            (CASE m.rom_information.mapper_type = "ROMOnly" -> rom_at(m, address)
               [] m.rom_information.mapper_type = "MBC1" ->
                    rom_at(m, bank_number(m) * 16384 + address - 16384)
               [] m.rom_information.mapper_type = "Other" -> Abort)
      [] address \in 32768..57343 -> Val(load(m, address))
      [] address \in 57344..65023 -> read_u8(m, address - 8192)
      [] address \in 65024..65183 -> Val(load(m, address))
      [] address \in 65184..65279 -> Val(255)
      [] address = 65280 -> Val(m.inputs_register)
      [] address \in 65284..65287 -> Val(Timers_read_u8(m.timers, address))
      [] address = 65295 -> Val(m.interrupts.interrupt_flag)
      [] address = 65344 -> Val(m.ppu.lcd_control)
      [] address = 65345 -> Val(m.ppu.lcd_status)
      [] address = 65346 -> Val(m.ppu.scy)
      [] address = 65347 -> Val(m.ppu.scx)
      [] address = 65348 -> Val(read_ly(m.ppu))
      [] address = 65349 -> Val(m.ppu.lcd_y_compare)
      [] address = 65350 -> Val(255)
      [] address = 65360 -> Val(m.dmg_boot_rom)
      [] address = 65396 -> Val(255)
      [] address = 65535 -> Val(m.interrupts.interrupt_enable)
      [] address \in Unmapped \cup {65407} -> Abort
      [] OTHER -> Val(load(m, address))

logged(m, address, value) ==
    [m EXCEPT !.obs_writes = Append(@, <<address, value>>)]

panic(m) == [m EXCEPT !.panicked = TRUE]

RECURSIVE write_u8(_, _, _)

\* One byte of the OAM DMA transfer (machine.rs:429-432).
oam_dma_byte(m, byte, offset) ==
    IF byte.panicked THEN panic(m) ELSE write_u8(m, 65024 + offset, byte.value)

\* The bytes from..to of the transfer, in ascending order: the span is
\* halved so that the evaluation nests 8 deep instead of 160.
RECURSIVE oam_dma_span(_, _, _, _)
oam_dma_span(m, base_source_address, from, to) ==
    IF m.panicked THEN m
    ELSE IF from = to
    THEN oam_dma_byte(m, read_u8(m, base_source_address + from), from)
    ELSE oam_dma_span(oam_dma_span(m, base_source_address, from,
                                   (from + to) \div 2),
                      base_source_address, (from + to) \div 2 + 1, to)

\* for offset in 0..=0x9F (machine.rs:429-432)
oam_dma(m, base_source_address, offset) ==
    oam_dma_span(m, base_source_address, offset, 159)

\* The bank register write taken for a store into the ROM buffer.
write_rom_bank_into_rom(m, value) ==
    [m EXCEPT !.loram_bank = And8(value, 31),
              !.game_rom_writes = [offset \in {8192} |-> value]]

\* MBC1, 0x2000-0x3FFF (machine.rs:319-321).
write_rom_bank(m, value) == [m EXCEPT !.loram_bank = And8(value, 31)]

\* The arms of the match in write_u8 (machine.rs:305-465).
write_arm(m, mapper, address, value) ==
    CASE address \in 0..32767 /\ mapper = "Other" -> panic(m)
      [] address \in 0..32767 /\ mapper = "ROMOnly" -> m
      [] address \in 0..8191 /\ mapper = "MBC1" ->
            [m EXCEPT !.is_ram_enabled = (And8(value, 15) = 10)]
      [] address \in 8192..16383 /\ mapper = "MBC1" -> write_rom_bank(m, value)
      [] address \in 16384..24575 /\ mapper = "MBC1" ->
            [m EXCEPT !.ram_or_hiram_bank = And8(value, 3)]
      [] address \in 24576..32767 /\ mapper = "MBC1" ->
            [m EXCEPT !.banking_mode = IF value % 2 = 0 THEN "Rom" ELSE "Ram"]
      [] address \in 32768..40959 -> store(m, address, value)
      [] address \in 40960..49151 ->
            IF m.rom_information.ram_size = "NoRAM" THEN m
            ELSE store(m, address, value)
      [] address \in 49152..57343 -> store(m, address, value)
      [] address \in 57344..65023 -> panic(m)
      [] address \in 65024..65183 -> store(m, address, value)
      [] address \in 65184..65279 -> m
      [] address = 65280 ->
            [m EXCEPT !.inputs_register = Or8(And8(value, 240), And8(@, 15))]
      [] address \in 65284..65287 ->
            [m EXCEPT !.timers = Timers_write_u8(@, address, value)]
      [] address = 65295 -> [m EXCEPT !.interrupts.interrupt_flag = value]
      [] address = 65344 -> [m EXCEPT !.ppu.lcd_control = value]
      [] address = 65345 -> [m EXCEPT !.ppu.lcd_status = value]
      [] address = 65346 -> [m EXCEPT !.ppu.scy = value]
      [] address = 65347 -> [m EXCEPT !.ppu.scx = value]
      [] address = 65348 -> panic(m)
      [] address = 65349 -> [m EXCEPT !.ppu.lcd_y_compare = value]
      [] address = 65350 ->
            IF value > 223 THEN panic(m) ELSE oam_dma(m, value * 256, 0)
      [] address = 65360 ->
            [m EXCEPT !.dmg_boot_rom = value, !.obs_ff50_written = TRUE]
      [] address = 65396 -> m
      [] address = 65397 -> store(m, address, And8(value, 7))
      [] address = 65407 -> m
      [] address = 65535 -> [m EXCEPT !.interrupts.interrupt_enable = value]
      [] address \in Unmapped -> panic(m)
      [] OTHER -> store(m, address, value)

write_u8(m, address, value) ==
    IF m.panicked THEN m
    ELSE IF is_dmg_boot_rom_on(m) /\ address <= 255
    THEN panic(logged(m, address, value))
    ELSE write_arm(logged(m, address, value), m.rom_information.mapper_type,
                   address, value)

----------------------------------------------------------------------------
(* Pixel fetchers: pixel_fetcher.rs, pixel_fetcher/background_or_window.rs, *)
(* pixel_fetcher/object.rs.  The fetchers are fields of the machine; the    *)
(* operators take the machine and return it with the fetcher advanced.      *)

VRAM_ADDRESS == 32768
OAM_ADDRESS == 65024
TILE_MAP0_VRAM_OFFSET == 6144
TILE_MAP1_VRAM_OFFSET == 7168
TILE_MAP_HORIZONTAL_TILE_COUNT == 32
TILE_MAP_TILE_TOTAL == 1024
LCDC_BACKGROUND_TILE_MAP_AREA_BIT == 3
LCDC_BACKGROUND_AND_WINDOW_TILE_AREA_BIT == 4

get_addressing_mode(ppu) ==
    IF is_bit_set(ppu.lcd_control, LCDC_BACKGROUND_AND_WINDOW_TILE_AREA_BIT)
    THEN "UnsignedFrom0x8000" ELSE "SignedFrom0x9000"

\* tile_id as i8 is the byte read as a two's complement number
tile_index_in_palette(tile_id, addressing_mode) ==
    IF addressing_mode = "UnsignedFrom0x8000" THEN tile_id
    ELSE 256 + (IF tile_id > 127 THEN tile_id - 256 ELSE tile_id)

\* ppu.vram[offset]
vram_at(m, offset) == load(m, VRAM_ADDRESS + offset)

\* tile_row_data[7 - bit_position] |= ((pixel_data >> bit_position) & 1)
\*                                     << bit_plane, for bit_position in 0..8
coalesce(tile_row_data, pixel_data, bit_plane) ==
    [i \in 1..8 |-> IF is_bit_set(pixel_data, 8 - i)
                    THEN set_bit(tile_row_data[i], bit_plane)
                    ELSE tile_row_data[i]]

read_tile_row(m, addressing_mode, current_line, tile_id, bit_plane, tile_row_data) ==
    coalesce(tile_row_data,
             vram_at(m, tile_index_in_palette(tile_id, addressing_mode) * 16
                        + (current_line % 8) * 2 + bit_plane),
             bit_plane)

\* (ppu.read_ly() + ppu.scy).0
fetched_line(m) == U8(read_ly(m.ppu) + m.ppu.scy)

\* The tile-map offset of the row being fetched.
row_address(m) ==
    (IF is_bit_set(m.ppu.lcd_control, LCDC_BACKGROUND_TILE_MAP_AREA_BIT)
     THEN TILE_MAP1_VRAM_OFFSET ELSE TILE_MAP0_VRAM_OFFSET)
    + (fetched_line(m) \div 8) * 32

\* GetTile (background_or_window.rs:52-75); the index into the record of
\* addressing modes is checked as the array access checks it.
bgw_get_tile(m) ==
    IF (fetched_line(m) \div 8) * TILE_MAP_HORIZONTAL_TILE_COUNT
          + m.background_window_fetcher.vram_tile_column >= TILE_MAP_TILE_TOTAL
    THEN panic(m)
    ELSE [m EXCEPT
            !.background_window_fetcher.tile_id =
                vram_at(m, row_address(m)
                           + m.background_window_fetcher.vram_tile_column),
            !.background_window_fetcher.state = "GetTileDataLowDelay"]

\* GetTileDataLow and GetTileDataHigh (background_or_window.rs:81-109).
bgw_get_tile_data(m, bit_plane, next) ==
    [m EXCEPT
       !.background_window_fetcher.tile_row_data =
           read_tile_row(m, get_addressing_mode(m.ppu), fetched_line(m),
                         m.background_window_fetcher.tile_id, bit_plane, @),
       !.background_window_fetcher.state = next]

\* [before, after]: the lengths of a FIFO around a push.
Pushed(before, after) == {[before |-> before, after |-> after]}

\* The push that does not wait for the FIFO to drain.
bgw_push_row_at_once(m) ==
    [m EXCEPT
       !.background_window_fetcher.fifo =
           @ \o [i \in 1..8 |->
                   [color |-> m.background_window_fetcher.tile_row_data[i]]],
       !.background_window_fetcher.obs_push =
           Pushed(Len(m.background_window_fetcher.fifo),
                  Len(m.background_window_fetcher.fifo) + 8),
       !.background_window_fetcher.vram_tile_column = @ + 1,
       !.background_window_fetcher.tile_row_data = EmptyTileRow,
       !.background_window_fetcher.state = "GetTileDelay"]

\* PushRow (background_or_window.rs:111-123).
bgw_push_row(m) ==
    IF Len(m.background_window_fetcher.fifo) = 0
    THEN [m EXCEPT
            !.background_window_fetcher.fifo =
                [i \in 1..8 |->
                   [color |-> m.background_window_fetcher.tile_row_data[i]]],
            !.background_window_fetcher.obs_push = Pushed(0, 8),
            !.background_window_fetcher.vram_tile_column = @ + 1,
            !.background_window_fetcher.tile_row_data = EmptyTileRow,
            !.background_window_fetcher.state = "GetTileDelay"]
    ELSE m

\* BackgroundOrWindowFetcher::tick (background_or_window.rs:48-125).
bgw_fetcher_tick(m) ==
    CASE m.background_window_fetcher.state = "GetTileDelay" ->
            [m EXCEPT !.background_window_fetcher.state = "GetTile"]
      [] m.background_window_fetcher.state = "GetTile" -> bgw_get_tile(m)
      [] m.background_window_fetcher.state = "GetTileDataLowDelay" ->
            [m EXCEPT !.background_window_fetcher.state = "GetTileDataLow"]
      [] m.background_window_fetcher.state = "GetTileDataLow" ->
            bgw_get_tile_data(m, 0, "GetTileDataHighDelay")
      [] m.background_window_fetcher.state = "GetTileDataHighDelay" ->
            [m EXCEPT !.background_window_fetcher.state = "GetTileDataHigh"]
      [] m.background_window_fetcher.state = "GetTileDataHigh" ->
            bgw_get_tile_data(m, 1, "PushRow")
      [] m.background_window_fetcher.state = "PushRow" -> bgw_push_row(m)

\* inclusive_ranges_overlap (object.rs:51-53) of the 8 columns from
\* pixel_index_in_row and the 8 columns of the sprite.
sprite_overlaps(f, item) ==
    /\ item.x_screen_plus_8 - 8 <= f.pixel_index_in_row + 7
    /\ f.pixel_index_in_row <= item.x_screen_plus_8 - 8 + 7

\* selected.iter().find(..) (object.rs:90-96)
find_sprite(f) ==
    IF \E k \in 1..Len(f.selected_objects) :
          sprite_overlaps(f, f.selected_objects[k])
    THEN {f.selected_objects[
            CHOOSE k \in 1..Len(f.selected_objects) :
               /\ sprite_overlaps(f, f.selected_objects[k])
               /\ \A l \in 1..(k - 1) :
                     ~sprite_overlaps(f, f.selected_objects[l])]}
    ELSE {}

\* GetTileDataLow and GetTileDataHigh (object.rs:103-139).
obj_tile_row(m, bit_plane) ==
    IF m.object_fetcher.sprite = {} THEN EmptyTileRow
    ELSE read_tile_row(m, "UnsignedFrom0x8000", fetched_line(m),
                       (CHOOSE sprite \in m.object_fetcher.sprite : TRUE)
                          .tile_index,
                       bit_plane, m.object_fetcher.tile_row_data)

\* palette_for_sprite (object.rs:172-181)
palette_for_sprite(sprite) ==
    IF sprite = {} THEN "ObjectPalette0"
    ELSE IF is_bit_set((CHOOSE x \in sprite : TRUE).attributes, 4)
    THEN "ObjectPalette1" ELSE "ObjectPalette0"

obj_item(f, i) ==
    [color |-> f.tile_row_data[i], palette |-> palette_for_sprite(f.sprite)]

\* The loop of PushRow (object.rs:145-163): the first 8 places of the FIFO.
obj_merged(f) ==
    [i \in 1..8 |-> IF i <= Len(f.fifo) /\ f.fifo[i].color # 0
                    THEN f.fifo[i] ELSE obj_item(f, i)]

obj_push_row(f) ==
    [f EXCEPT !.fifo = obj_merged(f) \o SubSeq(f.fifo, 9, Len(f.fifo)),
              !.obs_push = Pushed(Len(f.fifo),
                                  IF Len(f.fifo) > 8 THEN Len(f.fifo) ELSE 8),
              !.tile_row_data = EmptyTileRow,
              !.state = "GetTileDelay"]

\* ObjectFetcher::tick (object.rs:80-169).
obj_fetcher_tick(m) ==
    CASE m.object_fetcher.state = "GetTileDelay" ->
            [m EXCEPT !.object_fetcher.state = "GetTile"]
      [] m.object_fetcher.state = "GetTile" ->
            [m EXCEPT !.object_fetcher.sprite = find_sprite(m.object_fetcher),
                      !.object_fetcher.state = "GetTileDataLowDelay"]
      [] m.object_fetcher.state = "GetTileDataLowDelay" ->
            [m EXCEPT !.object_fetcher.state = "GetTileDataLow"]
      [] m.object_fetcher.state = "GetTileDataLow" ->
            [m EXCEPT !.object_fetcher.tile_row_data = obj_tile_row(m, 0),
                      !.object_fetcher.state = "GetTileDataHighDelay"]
      [] m.object_fetcher.state = "GetTileDataHighDelay" ->
            [m EXCEPT !.object_fetcher.state = "GetTileDataHigh"]
      [] m.object_fetcher.state = "GetTileDataHigh" ->
            [m EXCEPT !.object_fetcher.tile_row_data = obj_tile_row(m, 1),
                      !.object_fetcher.state = "PushRow"]
      [] m.object_fetcher.state = "PushRow" ->
            [m EXCEPT !.object_fetcher = obj_push_row(@)]

\* Fetcher::tick (pixel_fetcher.rs:105-119).
Fetcher_tick(m) ==
    IF m.pixel_fetcher.fetching_for = "BackgroundOrWindowFIFO"
    THEN bgw_fetcher_tick(m) ELSE obj_fetcher_tick(m)

\* prepare_for_new_row (background_or_window.rs:40-46, object.rs:67-72).
prepare_for_new_row(m) ==
    [m EXCEPT
       !.background_window_fetcher =
           [@ EXCEPT !.state = "GetTileDelay", !.fifo = << >>,
                     !.row_of_pixel_within_tile = 0, !.vram_tile_column = 0,
                     !.tile_row_data = EmptyTileRow],
       !.object_fetcher =
           [@ EXCEPT !.state = "GetTileDelay", !.fifo = << >>,
                     !.tile_row_data = EmptyTileRow,
                     !.pixel_index_in_row = 0]]

----------------------------------------------------------------------------
(* PPU: ppu.rs *)

LCD_HORIZONTAL_PIXEL_COUNT == 160
LCD_VERTICAL_PIXEL_COUNT == 144
PIXEL_DATA_SIZE == 4
LCDC_LCD_ENABLE_BIT == 7
LYC_EQUALS_LY_BIT == 2
MODE_0_INTERRUPT_SELECT_BIT == 3
MODE_1_INTERRUPT_SELECT_BIT == 4
MODE_2_INTERRUPT_SELECT_BIT == 5
LYC_EQUALS_LY_INTERRUPT_SELECT_BIT == 6

is_lcd_ppu_on(m) == is_bit_set(m.ppu.lcd_control, LCDC_LCD_ENABLE_BIT)

request_stat(m) ==
    [m EXCEPT !.interrupts = request_interrupt(@, STAT_INTERRUPT_BIT),
              !.ppu.obs_stat_requests = @ + 1]

request_vblank(m) ==
    [m EXCEPT !.interrupts = request_interrupt(@, VBLANK_INTERRUPT_BIT),
              !.ppu.obs_vblank_requests = @ + 1]

lyc_check(m) ==
    IF m.ppu.lcd_y_coord = m.ppu.lcd_y_compare
    THEN (IF is_bit_set(m.ppu.lcd_status, LYC_EQUALS_LY_INTERRUPT_SELECT_BIT)
          THEN request_stat([m EXCEPT !.ppu.lcd_status =
                                         set_bit(@, LYC_EQUALS_LY_BIT)])
          ELSE [m EXCEPT !.ppu.lcd_status = set_bit(@, LYC_EQUALS_LY_BIT)])
    ELSE [m EXCEPT !.ppu.lcd_status = unset_bit(@, LYC_EQUALS_LY_BIT)]

increment_ly(m) == lyc_check([m EXCEPT !.ppu.lcd_y_coord = U8(@ + 1)])

\* prepare_for_new_frame (ppu.rs:325-340, background_or_window.rs:32-38,
\* object.rs:74-78)
prepare_for_new_frame(m) ==
    [m EXCEPT
       !.ppu.lcd_y_coord = 0,
       !.background_window_fetcher =
           [@ EXCEPT !.state = "GetTileDelay", !.fifo = << >>,
                     !.row_of_pixel_within_tile = 0, !.vram_tile_column = 0,
                     !.tile_row_data = EmptyTileRow],
       !.object_fetcher =
           [@ EXCEPT !.state = "GetTileDelay", !.fifo = << >>,
                     !.pixel_index_in_row = 0]]

\* utils::set_bit / utils::unset_bit on each of the three mode-select bits
\* of STAT, as the switch_to_* functions do.
write_bit(value, bit_position, bit_value) ==
    IF bit_value THEN set_bit(value, bit_position)
    ELSE unset_bit(value, bit_position)

mode_select(lcd_status, mode_0, mode_1, mode_2) ==
    write_bit(write_bit(write_bit(lcd_status, MODE_0_INTERRUPT_SELECT_BIT,
                                  mode_0),
                        MODE_1_INTERRUPT_SELECT_BIT, mode_1),
              MODE_2_INTERRUPT_SELECT_BIT, mode_2)

switch_to_oam_scan(m) ==
    [prepare_for_new_row(m) EXCEPT
       !.ppu.drawn_pixels_on_current_row = 0,
       !.ppu.lcd_status = mode_select(@, FALSE, FALSE, TRUE),
       !.ppu.state = "OAMScan"]

switch_to_drawing_pixels(m) ==
    [m EXCEPT !.pixel_fetcher.fetching_for = "BackgroundOrWindowFIFO",
              !.ppu.state = "DrawingPixels"]

switch_to_horizontal_blank(m) ==
    [m EXCEPT !.ppu.lcd_status = mode_select(@, TRUE, FALSE, FALSE),
              !.ppu.state = "HorizontalBlank"]

\* Vertical blank entered without the interrupt request.
switch_to_vertical_blank_unrequested(m) ==
    [m EXCEPT !.ppu.lcd_status = mode_select(@, FALSE, TRUE, FALSE),
              !.ppu.state = "VerticalBlank"]

switch_to_vertical_blank(m) ==
    request_vblank([m EXCEPT
                      !.ppu.lcd_status = mode_select(@, FALSE, TRUE, FALSE),
                      !.ppu.state = "VerticalBlank"])

\* The OAM entry at object_offset (ppu.rs:393-398).
Sprite(m, object_offset) ==
    [x_screen_plus_8 |-> load(m, OAM_ADDRESS + object_offset + 1),
     y_screen_plus_16 |-> load(m, OAM_ADDRESS + object_offset),
     tile_index |-> load(m, OAM_ADDRESS + object_offset + 2),
     attributes |-> load(m, OAM_ADDRESS + object_offset + 3)]

\* object_min_y_on_screen <= ly && ly <= object_max_y_on_screen, object_size 8
on_scanline(sprite, ly) ==
    /\ sprite.y_screen_plus_16 - 16 <= ly
    /\ ly <= sprite.y_screen_plus_16 - 16 + 8 - 1

\* for object_offset in (0x00..0x9F).step_by(4) (ppu.rs:385-400)
RECURSIVE select_objects(_, _, _, _)
select_objects(m, ly, object_offset, selected_objects) ==
    IF object_offset >= 159 \/ Len(selected_objects) = 10
    THEN selected_objects
    ELSE select_objects(m, ly, object_offset + 4,
                        IF on_scanline(Sprite(m, object_offset), ly)
                        THEN Append(selected_objects, Sprite(m, object_offset))
                        ELSE selected_objects)

\* An OAM scan that starts at the second entry.
tick_oam_scan_from_second_entry(m) ==
    IF m.ppu.scanline_dots = 80
    THEN switch_to_drawing_pixels(
            [m EXCEPT !.object_fetcher.selected_objects =
                         select_objects(m, read_ly(m.ppu), 4, << >>)])
    ELSE m

\* mode 2 (ppu.rs:373-405); line 402 sets a field that ObjectFetcher
\* (pixel_fetcher/object.rs) does not have, and nothing reads it.
tick_oam_scan(m) ==
    IF m.ppu.scanline_dots = 80
    THEN switch_to_drawing_pixels(
            [m EXCEPT !.object_fetcher.selected_objects =
                         select_objects(m, read_ly(m.ppu), 0, << >>)])
    ELSE m

\* The choice that forgets to look at the object FIFO.
select_fifo_object_first(m) ==
    IF Len(m.background_window_fetcher.fifo) # 0
    THEN [m EXCEPT !.pixel_fetcher.fetching_for = "ObjectFIFO"]
    ELSE [m EXCEPT !.pixel_fetcher.fetching_for = "BackgroundOrWindowFIFO"]

\* The fetcher that runs on this dot (ppu.rs:409-421).
select_fifo(m) ==
    IF Len(m.object_fetcher.fifo) = 0
          /\ Len(m.background_window_fetcher.fifo) # 0
    THEN [m EXCEPT !.pixel_fetcher.fetching_for = "ObjectFIFO"]
    ELSE [m EXCEPT !.pixel_fetcher.fetching_for = "BackgroundOrWindowFIFO"]

\* Simulate pixel mixing (ppu.rs:439-444)
selected_pixel(bgw_pixel, obj_pixel) ==
    IF obj_pixel.color = 0 THEN bgw_pixel.color ELSE obj_pixel.color

pixel_coordinates_in_rgba_slice(x, y) ==
    (y * LCD_HORIZONTAL_PIXEL_COUNT + x) * PIXEL_DATA_SIZE

\* The pixel popped from both FIFOs goes to lcd_pixels: the slice must lie
\* inside the buffer and the colour code must be one of the four.
pixel_fits(m) ==
    /\ pixel_coordinates_in_rgba_slice(m.ppu.drawn_pixels_on_current_row,
                                       read_ly(m.ppu)) + 4
         <= LCD_HORIZONTAL_PIXEL_COUNT * LCD_VERTICAL_PIXEL_COUNT
              * PIXEL_DATA_SIZE
    /\ selected_pixel(Head(m.background_window_fetcher.fifo),
                      Head(m.object_fetcher.fifo)) \in 0..3

BGP_ADDRESS == 65351
OBP0_ADDRESS == 65352
OBP1_ADDRESS == 65353

\* The palette registers are plain bytes behind 0xFF47..0xFF49
\* (machine.rs:257-259, 434-436).
background_palette_data(m) == load(m, BGP_ADDRESS)
object_palette_0(m) == load(m, OBP0_ADDRESS)
object_palette_1(m) == load(m, OBP1_ADDRESS)

WHITE == <<255, 255, 255, 255>>
LIGHT_GRAY == <<170, 170, 170, 255>>
DARK_GRAY == <<85, 85, 85, 255>>
BLACK == <<0, 0, 0, 255>>

\* pixel_code_to_rgba (ppu.rs:130-145), for the pixel codes 0..3
pixel_code_to_rgba(pixel_code, palette) ==
    CASE (palette \div (4 ^ pixel_code)) % 4 = 0 -> WHITE
      [] (palette \div (4 ^ pixel_code)) % 4 = 1 -> LIGHT_GRAY
      [] (palette \div (4 ^ pixel_code)) % 4 = 2 -> DARK_GRAY
      [] (palette \div (4 ^ pixel_code)) % 4 = 3 -> BLACK

\* A mixing that picks the object palette the sprite's attribute names.
selected_palette_by_attribute(m, obj_pixel) ==
    IF obj_pixel.color = 0 THEN background_palette_data(m)
    ELSE IF obj_pixel.palette = "ObjectPalette1" THEN object_palette_1(m)
    ELSE object_palette_0(m)

\* Simulate pixel mixing (ppu.rs:439-444): the palette of the chosen colour.
selected_palette(m, obj_pixel) ==
    IF obj_pixel.color = 0 THEN background_palette_data(m)
    ELSE object_palette_0(m)

\* The four bytes copied into lcd_pixels and the two pixels popped for them
\* (ppu.rs:432-446).
written_pixel(m) ==
    [x |-> m.ppu.drawn_pixels_on_current_row, y |-> read_ly(m.ppu),
     bgw_pixel |-> Head(m.background_window_fetcher.fifo),
     obj_pixel |-> Head(m.object_fetcher.fifo),
     rgba |-> pixel_code_to_rgba(
                 selected_pixel(Head(m.background_window_fetcher.fifo),
                                Head(m.object_fetcher.fifo)),
                 selected_palette(m, Head(m.object_fetcher.fifo)))]

end_of_row(m) ==
    IF m.ppu.drawn_pixels_on_current_row = LCD_HORIZONTAL_PIXEL_COUNT
    THEN switch_to_horizontal_blank(m) ELSE m

\* ppu.rs:424-452
output_pixel(m) ==
    IF m.background_window_fetcher.fifo = << >> \/ m.object_fetcher.fifo = << >>
    THEN m
    ELSE IF ~pixel_fits(m) THEN panic(m)
    ELSE end_of_row([m EXCEPT
                       !.background_window_fetcher.fifo = Tail(@),
                       !.object_fetcher.fifo = Tail(@),
                       !.ppu.obs_pixel = {written_pixel(m)},
                       !.ppu.drawn_pixels_on_current_row = @ + 1])

\* mode 3 (ppu.rs:408-453)
tick_drawing_pixels(m) == output_pixel(Fetcher_tick(select_fifo(m)))

end_of_visible_line(m) ==
    IF read_ly(m.ppu) = LCD_VERTICAL_PIXEL_COUNT
    THEN switch_to_vertical_blank(m) ELSE switch_to_oam_scan(m)

\* Horizontal blank that ends one dot late.
tick_horizontal_blank_one_dot_late(m) ==
    IF m.ppu.scanline_dots = 457
    THEN end_of_visible_line(increment_ly([m EXCEPT !.ppu.scanline_dots = 0]))
    ELSE m

\* mode 0 (ppu.rs:456-466)
tick_horizontal_blank(m) ==
    IF m.ppu.scanline_dots = 456
    THEN end_of_visible_line(increment_ly([m EXCEPT !.ppu.scanline_dots = 0]))
    ELSE m

end_of_blank_line(m) ==
    IF read_ly(m.ppu) = 153
    THEN switch_to_oam_scan(prepare_for_new_frame(m)) ELSE m

\* mode 1 (ppu.rs:469-478)
tick_vertical_blank(m) ==
    IF m.ppu.scanline_dots = 456
    THEN end_of_blank_line(increment_ly([m EXCEPT !.ppu.scanline_dots = 0]))
    ELSE m

tick_mode(m) ==
    CASE m.ppu.state = "OAMScan" -> tick_oam_scan(m)
      [] m.ppu.state = "DrawingPixels" -> tick_drawing_pixels(m)
      [] m.ppu.state = "HorizontalBlank" -> tick_horizontal_blank(m)
      [] m.ppu.state = "VerticalBlank" -> tick_vertical_blank(m)

stat_line(ppu) == (ppu.lcd_status \div 8) % 16

\* STAT interrupt check (ppu.rs:481-486)
stat_interrupt_check(m) ==
    IF m.panicked THEN m
    ELSE [(IF m.ppu.last_stat_line = 0 /\ stat_line(m.ppu) # 0
           THEN request_stat(m) ELSE m)
          EXCEPT !.ppu.last_stat_line = stat_line(m.ppu)]

\* ppu.rs:366-369
count_dot(m) ==
    IF m.ppu.scanline_dots + 1 > 456 THEN panic(m)
    ELSE tick_mode([m EXCEPT !.ppu.scanline_dots = @ + 1])

\* The tick that counts the dot before it looks at the LCD enable bit.
lcd_tick_counts_when_off(m) == stat_interrupt_check(count_dot(m))

\* PPU::tick from the LCD test on (ppu.rs:362-487).
lcd_tick(m) ==
    IF ~is_lcd_ppu_on(m) THEN m ELSE stat_interrupt_check(count_dot(m))

\* One call of PPU::tick.
PPU_tick(m) == lcd_tick([m EXCEPT !.ppu.obs_dots = @ + 1])

\* PPU::ticks (ppu.rs:342-353): `dots` calls of tick, one after the other;
\* the count is halved so that the evaluation does not nest `dots` deep.
RECURSIVE PPU_ticks(_, _)
PPU_ticks(m, dots) ==
    IF dots = 0 \/ m.panicked THEN m
    ELSE IF dots = 1 THEN PPU_tick(m)
    ELSE PPU_ticks(PPU_ticks(m, dots \div 2), dots - dots \div 2)

----------------------------------------------------------------------------
(* CPU: cpu.rs, instructions/decode.rs, instructions/semantics.rs *)

\* An Instruction with its operands: x and y are the register, register pair
\* or condition operands ("" when there is none), imm the immediate (0 when
\* there is none), instruction_size the bytes the decoder read for it.
Instruction(op, x, y, imm, instruction_size) ==
    [op |-> op, x |-> x, y |-> y, imm |-> imm,
     instruction_size |-> instruction_size]

\* An instruction of a guest program given by its mnemonic, as the decoder
\* returns it (decode.rs:293-298).
Ins(op, imm) ==
    Instruction(op, "", "", imm,
                CASE op \in {"NOP", "DI", "EI", "HALT", "RETI", "Illegal"} -> 1
                  [] op \in {"LD_A_u8"} -> 2
                  [] op \in {"LD_mu16_A", "LD_A_mu16", "LD_SP_u16", "JP_u16"}
                       -> 3)

\* One arm of the decoder: the Instruction it builds and the operand it
\* takes from the bytes after the opcode ("none", "u8", "i8" or "imm16").
Arm(op, x, y, operand, imm) ==
    [op |-> op, x |-> x, y |-> y, operand |-> operand, imm |-> imm]

\* The arms of the match on the first byte (decode.rs:55-291), by opcode in
\* decimal; 0xCB has its own match.
decode_arm(opcode) ==
    CASE opcode = 0 -> Arm("NOP", "", "", "none", 0)
      [] opcode = 1 -> Arm("LD_r16_d16", "BC", "", "imm16", 0)
      [] opcode = 2 -> Arm("LD_mr16_r8", "BC", "A", "none", 0)
      [] opcode = 3 -> Arm("INC_r16", "BC", "", "none", 0)
      [] opcode = 4 -> Arm("INC_r8", "B", "", "none", 0)
      [] opcode = 5 -> Arm("DEC_r8", "B", "", "none", 0)
      [] opcode = 6 -> Arm("LD_r8_u8", "B", "", "u8", 0)
      [] opcode = 8 -> Arm("LD_mu16_SP", "", "", "imm16", 0)
      [] opcode = 9 -> Arm("ADD_HL_r16", "BC", "", "none", 0)
      [] opcode = 11 -> Arm("DEC_r16", "BC", "", "none", 0)
      [] opcode = 12 -> Arm("INC_r8", "C", "", "none", 0)
      [] opcode = 13 -> Arm("DEC_r8", "C", "", "none", 0)
      [] opcode = 14 -> Arm("LD_r8_u8", "C", "", "u8", 0)
      [] opcode = 17 -> Arm("LD_r16_d16", "DE", "", "imm16", 0)
      [] opcode = 18 -> Arm("LD_mr16_r8", "DE", "A", "none", 0)
      [] opcode = 19 -> Arm("INC_r16", "DE", "", "none", 0)
      [] opcode = 20 -> Arm("INC_r8", "D", "", "none", 0)
      [] opcode = 21 -> Arm("DEC_r8", "D", "", "none", 0)
      [] opcode = 22 -> Arm("LD_r8_u8", "D", "", "u8", 0)
      [] opcode = 23 -> Arm("RLA", "", "", "none", 0)
      [] opcode = 24 -> Arm("JR_i8", "", "", "i8", 0)
      [] opcode = 25 -> Arm("ADD_HL_r16", "DE", "", "none", 0)
      [] opcode = 26 -> Arm("LD_r8_mr16", "A", "DE", "none", 0)
      [] opcode = 28 -> Arm("INC_r8", "E", "", "none", 0)
      [] opcode = 29 -> Arm("DEC_r8", "E", "", "none", 0)
      [] opcode = 30 -> Arm("LD_r8_u8", "E", "", "u8", 0)
      [] opcode = 31 -> Arm("RRA", "", "", "none", 0)
      [] opcode = 32 -> Arm("JR_cc_i8", "NZ", "", "i8", 0)
      [] opcode = 33 -> Arm("LD_r16_d16", "HL", "", "imm16", 0)
      [] opcode = 34 -> Arm("LD_mHLinc_A", "", "", "none", 0)
      [] opcode = 35 -> Arm("INC_r16", "HL", "", "none", 0)
      [] opcode = 36 -> Arm("INC_r8", "H", "", "none", 0)
      [] opcode = 37 -> Arm("DEC_r8", "H", "", "none", 0)
      [] opcode = 38 -> Arm("LD_r8_u8", "H", "", "u8", 0)
      [] opcode = 40 -> Arm("JR_cc_i8", "Z", "", "i8", 0)
      [] opcode = 41 -> Arm("ADD_HL_r16", "HL", "", "none", 0)
      [] opcode = 42 -> Arm("LD_A_mHLinc", "", "", "none", 0)
      [] opcode = 44 -> Arm("INC_r8", "L", "", "none", 0)
      [] opcode = 45 -> Arm("DEC_r8", "L", "", "none", 0)
      [] opcode = 46 -> Arm("LD_r8_u8", "L", "", "u8", 0)
      [] opcode = 48 -> Arm("JR_cc_i8", "NC", "", "i8", 0)
      [] opcode = 49 -> Arm("LD_SP_u16", "", "", "imm16", 0)
      [] opcode = 50 -> Arm("LD_mHLdec_A", "", "", "none", 0)
      [] opcode = 51 -> Arm("INC_r16", "SP", "", "none", 0)
      [] opcode = 52 -> Arm("INC_mHL", "", "", "none", 0)
      [] opcode = 53 -> Arm("DEC_mHL", "", "", "none", 0)
      [] opcode = 56 -> Arm("JR_cc_i8", "C", "", "i8", 0)
      [] opcode = 57 -> Arm("ADD_HL_r16", "SP", "", "none", 0)
      [] opcode = 58 -> Arm("LD_A_mHLdec", "", "", "none", 0)
      [] opcode = 60 -> Arm("INC_r8", "A", "", "none", 0)
      [] opcode = 61 -> Arm("DEC_r8", "A", "", "none", 0)
      [] opcode = 62 -> Arm("LD_r8_u8", "A", "", "u8", 0)
      [] opcode = 64 -> Arm("LD_r8_r8", "B", "B", "none", 0)
      [] opcode = 65 -> Arm("LD_r8_r8", "B", "C", "none", 0)
      [] opcode = 66 -> Arm("LD_r8_r8", "B", "D", "none", 0)
      [] opcode = 67 -> Arm("LD_r8_r8", "B", "E", "none", 0)
      [] opcode = 68 -> Arm("LD_r8_r8", "B", "H", "none", 0)
      [] opcode = 69 -> Arm("LD_r8_r8", "B", "L", "none", 0)
      [] opcode = 70 -> Arm("LD_r8_mr16", "B", "HL", "none", 0)
      [] opcode = 71 -> Arm("LD_r8_r8", "B", "A", "none", 0)
      [] opcode = 72 -> Arm("LD_r8_r8", "C", "B", "none", 0)
      [] opcode = 73 -> Arm("LD_r8_r8", "C", "C", "none", 0)
      [] opcode = 74 -> Arm("LD_r8_r8", "C", "D", "none", 0)
      [] opcode = 75 -> Arm("LD_r8_r8", "C", "E", "none", 0)
      [] opcode = 76 -> Arm("LD_r8_r8", "C", "H", "none", 0)
      [] opcode = 77 -> Arm("LD_r8_r8", "C", "L", "none", 0)
      [] opcode = 78 -> Arm("LD_r8_mr16", "C", "HL", "none", 0)
      [] opcode = 79 -> Arm("LD_r8_r8", "C", "A", "none", 0)
      [] opcode = 80 -> Arm("LD_r8_r8", "D", "B", "none", 0)
      [] opcode = 81 -> Arm("LD_r8_r8", "D", "C", "none", 0)
      [] opcode = 82 -> Arm("LD_r8_r8", "D", "D", "none", 0)
      [] opcode = 83 -> Arm("LD_r8_r8", "D", "E", "none", 0)
      [] opcode = 84 -> Arm("LD_r8_r8", "D", "H", "none", 0)
      [] opcode = 85 -> Arm("LD_r8_r8", "D", "L", "none", 0)
      [] opcode = 86 -> Arm("LD_r8_mr16", "D", "HL", "none", 0)
      [] opcode = 87 -> Arm("LD_r8_r8", "D", "A", "none", 0)
      [] opcode = 88 -> Arm("LD_r8_r8", "E", "B", "none", 0)
      [] opcode = 89 -> Arm("LD_r8_r8", "E", "C", "none", 0)
      [] opcode = 90 -> Arm("LD_r8_r8", "E", "D", "none", 0)
      [] opcode = 91 -> Arm("LD_r8_r8", "E", "E", "none", 0)
      [] opcode = 92 -> Arm("LD_r8_r8", "E", "H", "none", 0)
      [] opcode = 93 -> Arm("LD_r8_r8", "E", "L", "none", 0)
      [] opcode = 94 -> Arm("LD_r8_mr16", "E", "HL", "none", 0)
      [] opcode = 95 -> Arm("LD_r8_r8", "E", "A", "none", 0)
      [] opcode = 96 -> Arm("LD_r8_r8", "H", "B", "none", 0)
      [] opcode = 97 -> Arm("LD_r8_r8", "H", "C", "none", 0)
      [] opcode = 98 -> Arm("LD_r8_r8", "H", "D", "none", 0)
      [] opcode = 99 -> Arm("LD_r8_r8", "H", "E", "none", 0)
      [] opcode = 100 -> Arm("LD_r8_r8", "H", "H", "none", 0)
      [] opcode = 101 -> Arm("LD_r8_r8", "H", "L", "none", 0)
      [] opcode = 102 -> Arm("LD_r8_mr16", "H", "HL", "none", 0)
      [] opcode = 103 -> Arm("LD_r8_r8", "H", "A", "none", 0)
      [] opcode = 104 -> Arm("LD_r8_r8", "L", "B", "none", 0)
      [] opcode = 105 -> Arm("LD_r8_r8", "L", "C", "none", 0)
      [] opcode = 106 -> Arm("LD_r8_r8", "L", "D", "none", 0)
      [] opcode = 107 -> Arm("LD_r8_r8", "L", "E", "none", 0)
      [] opcode = 108 -> Arm("LD_r8_r8", "L", "H", "none", 0)
      [] opcode = 109 -> Arm("LD_r8_r8", "L", "L", "none", 0)
      [] opcode = 110 -> Arm("LD_r8_mr16", "L", "HL", "none", 0)
      [] opcode = 111 -> Arm("LD_r8_r8", "L", "A", "none", 0)
      [] opcode = 112 -> Arm("LD_mr16_r8", "HL", "B", "none", 0)
      [] opcode = 113 -> Arm("LD_mr16_r8", "HL", "C", "none", 0)
      [] opcode = 114 -> Arm("LD_mr16_r8", "HL", "D", "none", 0)
      [] opcode = 115 -> Arm("LD_mr16_r8", "HL", "E", "none", 0)
      [] opcode = 116 -> Arm("LD_mr16_r8", "HL", "H", "none", 0)
      [] opcode = 117 -> Arm("LD_mr16_r8", "HL", "L", "none", 0)
      [] opcode = 119 -> Arm("LD_mr16_r8", "HL", "A", "none", 0)
      [] opcode = 120 -> Arm("LD_r8_r8", "A", "B", "none", 0)
      [] opcode = 121 -> Arm("LD_r8_r8", "A", "C", "none", 0)
      [] opcode = 122 -> Arm("LD_r8_r8", "A", "D", "none", 0)
      [] opcode = 123 -> Arm("LD_r8_r8", "A", "E", "none", 0)
      [] opcode = 124 -> Arm("LD_r8_r8", "A", "H", "none", 0)
      [] opcode = 125 -> Arm("LD_r8_r8", "A", "L", "none", 0)
      [] opcode = 126 -> Arm("LD_A_mHL", "", "", "none", 0)
      [] opcode = 131 -> Arm("ADD_A_r8", "E", "", "none", 0)
      [] opcode = 134 -> Arm("ADD_A_mHL", "", "", "none", 0)
      [] opcode = 136 -> Arm("ADC_A_r8", "B", "", "none", 0)
      [] opcode = 137 -> Arm("ADC_A_r8", "C", "", "none", 0)
      [] opcode = 144 -> Arm("SUB_A_r8", "B", "", "none", 0)
      [] opcode = 153 -> Arm("SBC_A_C", "", "", "none", 0)
      [] opcode = 159 -> Arm("SBC_A_A", "", "", "none", 0)
      [] opcode = 165 -> Arm("AND_L", "", "", "none", 0)
      [] opcode = 168 -> Arm("XOR_A_r8", "B", "", "none", 0)
      [] opcode = 169 -> Arm("XOR_A_r8", "C", "", "none", 0)
      [] opcode = 170 -> Arm("XOR_A_r8", "D", "", "none", 0)
      [] opcode = 171 -> Arm("XOR_A_r8", "E", "", "none", 0)
      [] opcode = 172 -> Arm("XOR_A_r8", "H", "", "none", 0)
      [] opcode = 173 -> Arm("XOR_A_r8", "L", "", "none", 0)
      [] opcode = 174 -> Arm("XOR_A_mHL", "", "", "none", 0)
      [] opcode = 175 -> Arm("XOR_A_r8", "A", "", "none", 0)
      [] opcode = 176 -> Arm("OR_r8", "B", "", "none", 0)
      [] opcode = 177 -> Arm("OR_r8", "C", "", "none", 0)
      [] opcode = 178 -> Arm("OR_r8", "D", "", "none", 0)
      [] opcode = 179 -> Arm("OR_r8", "E", "", "none", 0)
      [] opcode = 180 -> Arm("OR_r8", "H", "", "none", 0)
      [] opcode = 181 -> Arm("OR_r8", "L", "", "none", 0)
      [] opcode = 182 -> Arm("OR_A_mHL", "", "", "none", 0)
      [] opcode = 183 -> Arm("OR_r8", "A", "", "none", 0)
      [] opcode = 185 -> Arm("CP_A_r8", "C", "", "none", 0)
      [] opcode = 187 -> Arm("CP_A_r8", "E", "", "none", 0)
      [] opcode = 190 -> Arm("CP_A_mHL", "", "", "none", 0)
      [] opcode = 192 -> Arm("RET_cc", "NZ", "", "none", 0)
      [] opcode = 193 -> Arm("POP_r16", "BC", "", "none", 0)
      [] opcode = 194 -> Arm("JP_cc_u16", "NZ", "", "imm16", 0)
      [] opcode = 195 -> Arm("JP_u16", "", "", "imm16", 0)
      [] opcode = 196 -> Arm("CALL_cc_u16", "NZ", "", "imm16", 0)
      [] opcode = 197 -> Arm("PUSH_r16", "BC", "", "none", 0)
      [] opcode = 198 -> Arm("ADD_A_u8", "", "", "u8", 0)
      [] opcode = 199 -> Arm("RST", "", "", "none", 0)
      [] opcode = 200 -> Arm("RET_cc", "Z", "", "none", 0)
      [] opcode = 201 -> Arm("RET", "", "", "none", 0)
      [] opcode = 202 -> Arm("JP_cc_u16", "Z", "", "imm16", 0)
      [] opcode = 204 -> Arm("CALL_cc_u16", "Z", "", "imm16", 0)
      [] opcode = 205 -> Arm("CALL_a16", "", "", "imm16", 0)
      [] opcode = 206 -> Arm("ADC_A_u8", "", "", "u8", 0)
      [] opcode = 207 -> Arm("RST", "", "", "none", 8)
      [] opcode = 208 -> Arm("RET_cc", "NC", "", "none", 0)
      [] opcode = 209 -> Arm("POP_r16", "DE", "", "none", 0)
      [] opcode = 210 -> Arm("JP_cc_u16", "NC", "", "imm16", 0)
      [] opcode = 212 -> Arm("CALL_cc_u16", "NC", "", "imm16", 0)
      [] opcode = 213 -> Arm("PUSH_r16", "DE", "", "none", 0)
      [] opcode = 214 -> Arm("SUB_A_u8", "", "", "u8", 0)
      [] opcode = 215 -> Arm("RST", "", "", "none", 16)
      [] opcode = 216 -> Arm("RET_cc", "C", "", "none", 0)
      [] opcode = 217 -> Arm("RETI", "", "", "none", 0)
      [] opcode = 218 -> Arm("JP_cc_u16", "C", "", "imm16", 0)
      [] opcode = 220 -> Arm("CALL_cc_u16", "C", "", "imm16", 0)
      [] opcode = 223 -> Arm("RST", "", "", "none", 24)
      [] opcode = 224 -> Arm("LD_FFu8_A", "", "", "u8", 0)
      [] opcode = 225 -> Arm("POP_r16", "HL", "", "none", 0)
      [] opcode = 226 -> Arm("LD_FFC_A", "", "", "none", 0)
      [] opcode = 229 -> Arm("PUSH_r16", "HL", "", "none", 0)
      [] opcode = 230 -> Arm("AND_u8", "", "", "u8", 0)
      [] opcode = 231 -> Arm("RST", "", "", "none", 32)
      [] opcode = 233 -> Arm("JP_HL", "", "", "none", 0)
      [] opcode = 234 -> Arm("LD_mu16_A", "", "", "imm16", 0)
      [] opcode = 238 -> Arm("XOR_A_u8", "", "", "u8", 0)
      [] opcode = 239 -> Arm("RST", "", "", "none", 40)
      [] opcode = 240 -> Arm("LD_A_FFu8", "", "", "u8", 0)
      [] opcode = 241 -> Arm("POP_r16", "AF", "", "none", 0)
      [] opcode = 243 -> Arm("DI", "", "", "none", 0)
      [] opcode = 245 -> Arm("PUSH_r16", "AF", "", "none", 0)
      [] opcode = 247 -> Arm("RST", "", "", "none", 48)
      [] opcode = 249 -> Arm("LD_SP_HL", "", "", "none", 0)
      [] opcode = 251 -> Arm("EI", "", "", "none", 0)
      [] opcode = 250 -> Arm("LD_A_mu16", "", "", "imm16", 0)
      [] opcode = 254 -> Arm("CP_A_u8", "", "", "u8", 0)
      [] opcode = 255 -> Arm("RST", "", "", "none", 56)
      [] OTHER -> Arm("unhandled", "", "", "none", 0)

\* The arms of the match on the byte after 0xCB (decode.rs:222-249).
decode_prefixed_arm(opcode) ==
    CASE opcode = 16 -> Arm("RL_r8", "B", "", "none", 0)
      [] opcode = 17 -> Arm("RL_r8", "C", "", "none", 0)
      [] opcode = 18 -> Arm("RL_r8", "D", "", "none", 0)
      [] opcode = 19 -> Arm("RL_r8", "E", "", "none", 0)
      [] opcode = 20 -> Arm("RL_r8", "H", "", "none", 0)
      [] opcode = 21 -> Arm("RL_r8", "L", "", "none", 0)
      [] opcode = 24 -> Arm("RR_r8", "B", "", "none", 0)
      [] opcode = 25 -> Arm("RR_r8", "C", "", "none", 0)
      [] opcode = 26 -> Arm("RR_r8", "D", "", "none", 0)
      [] opcode = 27 -> Arm("RR_r8", "E", "", "none", 0)
      [] opcode = 28 -> Arm("RR_r8", "H", "", "none", 0)
      [] opcode = 29 -> Arm("RR_r8", "L", "", "none", 0)
      [] opcode = 31 -> Arm("RR_r8", "A", "", "none", 0)
      [] opcode = 56 -> Arm("SRL_r8", "B", "", "none", 0)
      [] opcode = 120 -> Arm("BIT_u3_r8", "B", "", "none", 7)
      [] opcode = 121 -> Arm("BIT_u3_r8", "C", "", "none", 7)
      [] opcode = 122 -> Arm("BIT_u3_r8", "D", "", "none", 7)
      [] opcode = 123 -> Arm("BIT_u3_r8", "E", "", "none", 7)
      [] opcode = 124 -> Arm("BIT_u3_r8", "H", "", "none", 7)
      [] OTHER -> Arm("Prefix", "", "", "none", 0)

\* `as i8` of a byte
as_i8(byte) == IF byte > 127 THEN byte - 256 ELSE byte

\* A wrong count: the last byte of an operand is read without being counted.
operand_size_one_short(operand) ==
    CASE operand = "none" -> 0
      [] operand \in {"u8", "i8"} -> 0
      [] operand = "imm16" -> 1

\* What next_u8 / next_i8 / next_imm16 add to bytes_read.
operand_size(operand) ==
    CASE operand = "none" -> 0
      [] operand \in {"u8", "i8"} -> 1
      [] operand = "imm16" -> 2

\* Immediate16::from_memory (type_def.rs:28-33): lower byte first.
Immediate16_from_bytes(lower, higher) ==
    [value |-> as_u16(lower.value, higher.value),
     panicked |-> lower.panicked \/ higher.panicked]

Immediate16_from_memory(m, address) ==
    Immediate16_from_bytes(read_u8(m, address), read_u8(m, U16(address + 1)))

\* The closures next_u8, next_i8 and next_imm16 (decode.rs:40-54), called
\* when bytes_read is 1: the address wraps around the 16-bit space.
next_operand(m, address, arm) ==
    CASE arm.operand = "none" -> Val(arm.imm)
      [] arm.operand = "u8" -> read_u8(m, U16(address + 1))
      [] arm.operand = "i8" ->
            [read_u8(m, U16(address + 1)) EXCEPT !.value = as_i8(@)]
      [] arm.operand = "imm16" -> Immediate16_from_memory(m, U16(address + 1))

\* address.saturating_add(size as u16)
saturating_add(address, size) ==
    IF address + size > 65535 THEN 65535 ELSE address + size

\* Machine::read_range (machine.rs:288-295): the reads of
\* address..address.saturating_add(size), in order.
read_range(m, address, size) ==
    [i \in 1..(saturating_add(address, size) - address) |->
        read_u8(m, address + i - 1)]

\* The DecodedInstruction (decode.rs:293-298), or the panic of one of the
\* reads that build it.
DecodedInstruction(address, arm, operand, bytes_read, range) ==
    [address |-> address,
     instruction |-> Instruction(arm.op, arm.x, arm.y, operand.value,
                                 bytes_read),
     instruction_size |-> bytes_read,
     raw |-> [i \in DOMAIN range |-> range[i].value],
     panicked |-> operand.panicked \/ \E i \in DOMAIN range : range[i].panicked]

\* The decoder panicked: on an opcode without an arm (decode.rs:291) or in
\* the read of the opcode.
DecodeAbort(address) ==
    [address |-> address,
     instruction |-> Instruction("unhandled", "", "", 0, 0),
     instruction_size |-> 0, raw |-> << >>, panicked |-> TRUE]

decode_arm_at(m, address, arm) ==
    IF arm.op = "unhandled"
    THEN DecodeAbort(address)
    ELSE DecodedInstruction(address, arm, next_operand(m, address, arm),
                            1 + operand_size(arm.operand),
                            read_range(m, address,
                                       1 + operand_size(arm.operand)))

decode_prefixed_at(m, address, extension) ==
    IF extension.panicked
    THEN DecodeAbort(address)
    ELSE DecodedInstruction(address, decode_prefixed_arm(extension.value),
                            Val(decode_prefixed_arm(extension.value).imm),
                            2, read_range(m, address, 2))

decode_opcode_at(m, address, opcode) ==
    IF opcode.panicked
    THEN DecodeAbort(address)
    ELSE IF opcode.value = 203
    THEN decode_prefixed_at(m, address, read_u8(m, U16(address + 1)))
    ELSE decode_arm_at(m, address, decode_arm(opcode.value))

decode_instruction_at_address(m, address) ==
    decode_opcode_at(m, address, read_u8(m, address))

\* Checks whether adding a and b with bitsize (bit - 1) would produce a carry
\* (1) at position bit (semantics.rs:13-19).
add_produces_carry(a, b, c, bit) ==
    is_bit_set((a % (2 ^ bit)) + (b % (2 ^ bit)) + as_u8(c), bit)

\* Checks whether subtracting b from a with bitsize (bit - 1) would produce
\* a borrow at position bit (semantics.rs:23-30).
sub_borrows(a, b, c, bit) ==
    ~is_bit_set(((2 ^ bit) + (a % (2 ^ bit))) - (b % (2 ^ bit)) - as_u8(c),
                bit)

\* A wrong half carry: the carry into bit 4 is taken without the carry flag.
adc_half_carry_without_c(r, a, b, c) ==
    znhc(write_a(r, U8(a + b + as_u8(c))),
         U8(a + b + as_u8(c)) = 0, FALSE,
         add_produces_carry(a, b, FALSE, 4), add_produces_carry(a, b, c, 8))

\* semantics.rs:41-49, on the registers
adc(r, a, b, c) ==
    znhc(write_a(r, U8(a + b + as_u8(c))),
         U8(a + b + as_u8(c)) = 0, FALSE,
         add_produces_carry(a, b, c, 4), add_produces_carry(a, b, c, 8))

add(r, a, b) == adc(r, a, b, FALSE)

\* semantics.rs:80-88
subc(r, a, b, c) ==
    znhc(write_a(r, U8(512 + a - b - as_u8(c))),
         U8(512 + a - b - as_u8(c)) = 0, TRUE,
         sub_borrows(a, b, c, 4), sub_borrows(a, b, c, 8))

sub(r, a, b) == subc(r, a, b, FALSE)

compare(r, a, b) ==
    znhc(r, a = b, TRUE, sub_borrows(a, b, FALSE, 4),
         sub_borrows(a, b, FALSE, 8))

Xor8(a, b) == Or8(a, b) - And8(a, b)

and(r, a, b) == znhc(write_a(r, And8(a, b)), And8(a, b) = 0, FALSE, TRUE, FALSE)

xor(r, a, b) ==
    znhc(write_a(r, Xor8(a, b)), Xor8(a, b) = 0, FALSE, FALSE, FALSE)

\* The flags of dec (semantics.rs:71-78); the result is U8(a + 255).
dec(r, a) ==
    write_flag(write_flag(write_flag(r, "Z", U8(a + 255) = 0), "N", TRUE),
               "H", sub_borrows(a, 1, FALSE, 4))

\* INC_r8 (semantics.rs:360-372)
inc_r8(r, r8) ==
    write_flag(
        write_flag(
            write_flag(write_r8(r, r8, U8(read_r8(r, r8) + 1)),
                       "Z", U8(read_r8(r, r8) + 1) = 0),
            "N", FALSE),
        "H", add_produces_carry(read_r8(r, r8), 1, FALSE, 4))

\* ADD_HL_r16 (semantics.rs:158-170)
add_hl(r, b) ==
    write_flag(
        write_flag(
            write_flag(write_r16(r, "HL", U16(r.hl + b)), "N", FALSE),
            "H", add_produces_carry(r.hl, b, FALSE, 12)),
        "C", add_produces_carry(r.hl, b, FALSE, 16))

\* bit_complement (semantics.rs:969-974)
bit_complement(r, value) ==
    write_flag(write_flag(write_flag(r, "Z", ~value), "N", FALSE), "H", TRUE)

\* The machine with its registers replaced.
with_registers(m, r) == [m EXCEPT !.cpu.registers = r]

write_at_sp(m, byte) == write_u8(m, m.cpu.registers.sp, byte)

\* sp -= 1, then the byte is written at sp (cpu.rs:72-73, 74-75).
push_byte(m, byte) ==
    write_at_sp([m EXCEPT !.cpu.registers.sp = U16(@ + 65535)], byte)

\* A wrong push: the lower byte first, so that it ends at the higher address.
push_imm16_lower_first(m, imm16) ==
    push_byte(push_byte(m, lower_u8(imm16)), higher_u8(imm16))

\* Note: pushes the higher byte goes to higher address
push_imm16(m, imm16) ==
    push_byte(push_byte(m, higher_u8(imm16)), lower_u8(imm16))

\* cpu.rs:59-66: sp has been moved past both bytes when the register is
\* written.
pop_r16_bytes(m, r16, lower, higher) ==
    IF lower.panicked \/ higher.panicked THEN panic(m)
    ELSE with_registers(m, write_r16([m.cpu.registers EXCEPT !.sp = U16(@ + 2)],
                                     r16, as_u16(lower.value, higher.value)))

\* CPU::pop_r16
pop_r16(m, r16) ==
    pop_r16_bytes(m, r16, read_u8(m, m.cpu.registers.sp),
                  read_u8(m, U16(m.cpu.registers.sp + 1)))

\* CPU::pop_r16 for R16::PC.
pop_pc(m) == pop_r16(m, "PC")

\* semantics.rs:101-104
call(m, address) ==
    [push_imm16(m, m.cpu.registers.pc) EXCEPT !.cpu.registers.pc = address]

\* pc.wrapping_add_signed(i8 as i16)
jump_relative(m, i8) ==
    [m EXCEPT !.cpu.registers.pc = U16(65536 + @ + i8)]

\* A wrong POP AF: all eight bits of F are restored.
mask_af_none(m, r16) == m

\* Only the flag bits of F are restored (semantics.rs:599-607).
mask_af(m, r16) ==
    IF r16 = "AF" /\ ~m.panicked
    THEN [m EXCEPT !.cpu.registers.af = @ - (@ % 16)]
    ELSE m

\* Only the flag bits of F are pushed (semantics.rs:609-617).
byte_to_push(r, r16) ==
    IF r16 = "AF" THEN r.af - (r.af % 16) ELSE read_r16(r, r16)

Ran(m, t_cycles) == [m |-> m, t_cycles |-> t_cycles]

\* A wrong EI: it sets IME at once.
execute_EI_at_once(m) ==
    [m EXCEPT !.interrupts.interrupt_master_enable = TRUE]

\* NOTE: This sets up IME in one instruction
execute_EI(m) ==
    [m EXCEPT !.interrupts.interrupt_master_enable_delayed = TRUE]

load_a(m, r) ==
    [m EXCEPT !.cpu.registers = write_a(@, r.value), !.panicked = r.panicked]

\* The adjustment of DAA (semantics.rs:274-298): `data` is the accumulator
\* as a u16, changed with wrapping arithmetic.
daa_data(a, n, h, c) ==
    IF n
    THEN U16(a - (IF h THEN 6 ELSE 0) - (IF c THEN 96 ELSE 0) + 65536)
    ELSE U16((IF h \/ a % 16 > 9 THEN a + 6 ELSE a)
             + (IF c \/ (IF h \/ a % 16 > 9 THEN a + 6 ELSE a) % 512 > 159
                THEN 96 ELSE 0))

daa_half_carry(a, n, h) == h \/ (~n /\ a % 16 > 9)

daa_carry(a, n, h, c) ==
    c \/ (~n /\ (IF h \/ a % 16 > 9 THEN a + 6 ELSE a) % 512 > 159)

\* Instruction::DAA (semantics.rs:274-308): Z is written from the u16.
daa(r) ==
    write_flag(
        write_flag(
            write_flag(
                write_a(r, U8(daa_data(read_a(r), read_flag(r, "N"),
                                       read_flag(r, "H"), read_flag(r, "C")))),
                "Z", daa_data(read_a(r), read_flag(r, "N"),
                              read_flag(r, "H"), read_flag(r, "C")) = 0),
            "H", daa_half_carry(read_a(r), read_flag(r, "N"),
                                read_flag(r, "H"))),
        "C", daa_carry(read_a(r), read_flag(r, "N"), read_flag(r, "H"),
                       read_flag(r, "C")))

\* The arms of the match that work on the registers alone; `r` is
\* machine.cpu.registers.
register_semantics(ins, m, r) ==
    CASE ins.op = "DAA" -> Ran(with_registers(m, daa(r)), 4)
      [] ins.op = "ADC_A_r8" ->
           Ran(with_registers(m, adc(r, read_a(r), read_r8(r, ins.x),
                                     read_flag(r, "C"))), 4)
      [] ins.op = "ADC_A_u8" ->
           Ran(with_registers(m, adc(r, read_a(r), ins.imm,
                                     read_flag(r, "C"))), 8)
      [] ins.op = "ADD_A_r8" ->
           Ran(with_registers(m, add(r, read_a(r), read_r8(r, ins.x))), 4)
      [] ins.op = "ADD_A_u8" ->
           Ran(with_registers(m, add(r, read_a(r), ins.imm)), 8)
      [] ins.op = "ADD_HL_r16" ->
           Ran(with_registers(m, add_hl(r, read_r16(r, ins.x))), 8)
      [] ins.op = "AND_u8" ->
           Ran(with_registers(m, and(r, read_a(r), ins.imm)), 8)
      [] ins.op = "BIT_u3_r8" ->
           Ran(with_registers(m, bit_complement(
                   r, is_bit_set(read_r8(r, ins.x), ins.imm))), 8)
      [] ins.op = "CP_A_r8" ->
           Ran(with_registers(m, compare(r, read_a(r), read_r8(r, ins.x))), 4)
      [] ins.op = "CP_A_u8" ->
           Ran(with_registers(m, compare(r, read_a(r), ins.imm)), 8)
      [] ins.op = "DEC_r8" ->
           Ran(with_registers(m, write_r8(dec(r, read_r8(r, ins.x)), ins.x,
                                          U8(read_r8(r, ins.x) + 255))), 4)
      [] ins.op = "DEC_r16" ->
           Ran(with_registers(m, write_r16(r, ins.x,
                                           U16(read_r16(r, ins.x) + 65535))),
               8)
      [] ins.op = "INC_r8" -> Ran(with_registers(m, inc_r8(r, ins.x)), 4)
      [] ins.op = "INC_r16" ->
           Ran(with_registers(m, write_r16(r, ins.x,
                                           U16(read_r16(r, ins.x) + 1))), 8)
      [] ins.op = "JP_HL" -> Ran([m EXCEPT !.cpu.registers.pc = r.hl], 4)
      [] ins.op = "LD_r8_r8" ->
           Ran(with_registers(m, write_r8(r, ins.x, read_r8(r, ins.y))), 4)
      [] ins.op = "LD_r16_d16" ->
           Ran(with_registers(m, write_r16(r, ins.x, ins.imm)), 12)
      [] ins.op = "LD_r8_u8" ->
           Ran(with_registers(m, write_r8(r, ins.x, ins.imm)), 8)
      [] ins.op = "LD_SP_HL" -> Ran([m EXCEPT !.cpu.registers.sp = r.hl], 8)
      [] ins.op = "SBC_A_r8" ->
           Ran(with_registers(m, subc(r, read_a(r), read_r8(r, ins.x),
                                      read_flag(r, "C"))), 4)
      [] ins.op = "SBC_A_u8" ->
           Ran(with_registers(m, subc(r, read_a(r), ins.imm,
                                      read_flag(r, "C"))), 8)
      [] ins.op = "SUB_A_r8" ->
           Ran(with_registers(m, sub(r, read_a(r), read_r8(r, ins.x))), 4)
      [] ins.op = "SUB_A_u8" ->
           Ran(with_registers(m, sub(r, read_a(r), ins.imm)), 8)
      [] ins.op = "XOR_A_r8" ->
           Ran(with_registers(m, xor(r, read_a(r), read_r8(r, ins.x))), 4)
      [] ins.op = "XOR_A_u8" ->
           Ran(with_registers(m, xor(r, read_a(r), ins.imm)), 8)

or(r, a, b) == znhc(write_a(r, Or8(a, b)), Or8(a, b) = 0, FALSE, FALSE, FALSE)

\* rotate_left_with (semantics.rs:912-917): the rotated value and the
\* registers with the flags it sets.
rotate_left_with(r, value, new_bit) ==
    [res |-> U8(value * 2) + as_u8(new_bit),
     r |-> znhc(r, U8(value * 2) + as_u8(new_bit) = 0, FALSE, FALSE,
                value \div 128 = 1)]

rotate_right_with(r, value, new_bit) ==
    [res |-> (value \div 2) + as_u8(new_bit) * 128,
     r |-> znhc(r, (value \div 2) + as_u8(new_bit) * 128 = 0, FALSE, FALSE,
                value % 2 = 1)]

shift_right_logically(r, value) ==
    [res |-> value \div 2,
     r |-> znhc(r, value \div 2 = 0, FALSE, FALSE, value % 2 = 1)]

\* The machine after a bus read `rd` and the register update computed from
\* its value.
read_then(m, rd, r) ==
    [m EXCEPT !.cpu.registers = r, !.panicked = @ \/ rd.panicked]

\* The arms of the match that rotate, shift or work on the byte (HL) or the
\* high page points to.  The decoder of this tree names five arms the way an
\* earlier instruction set did (SBC_A_A, SBC_A_C, AND_L, OR_r8, LD_A_mHL);
\* they run the arm of the same instruction (SBC_A_r8, AND_A_r8, OR_A_r8,
\* LD_A_mr16).  An unknown 0xCB opcode decodes to Prefix, which no arm
\* executes.
memory_semantics(ins, m, r) ==
    CASE ins.op = "ADD_A_mHL" ->
           Ran(read_then(m, read_u8(m, r.hl),
                         add(r, read_a(r), read_u8(m, r.hl).value)), 8)
      [] ins.op = "CP_A_mHL" ->
           Ran(read_then(m, read_u8(m, r.hl),
                         compare(r, read_a(r), read_u8(m, r.hl).value)), 8)
      [] ins.op = "OR_A_mHL" ->
           Ran(read_then(m, read_u8(m, r.hl),
                         or(r, read_a(r), read_u8(m, r.hl).value)), 8)
      [] ins.op = "XOR_A_mHL" ->
           Ran(read_then(m, read_u8(m, r.hl),
                         xor(r, read_a(r), read_u8(m, r.hl).value)), 8)
      [] ins.op = "AND_L" ->
           Ran(with_registers(m, and(r, read_a(r), read_r8(r, "L"))), 4)
      [] ins.op = "OR_r8" ->
           Ran(with_registers(m, or(r, read_a(r), read_r8(r, ins.x))), 4)
      [] ins.op = "SBC_A_A" ->
           Ran(with_registers(m, subc(r, read_a(r), read_a(r),
                                       read_flag(r, "C"))), 4)
      [] ins.op = "SBC_A_C" ->
           Ran(with_registers(m, subc(r, read_a(r), read_r8(r, "C"),
                                       read_flag(r, "C"))), 4)
      [] ins.op = "DEC_mHL" ->
           Ran(write_u8(read_then(m, read_u8(m, r.hl),
                                  dec(r, read_u8(m, r.hl).value)),
                        r.hl, U8(read_u8(m, r.hl).value + 255)), 12)
      [] ins.op = "INC_mHL" ->
           Ran(write_u8(read_then(m, read_u8(m, r.hl), r),
                        r.hl, U8(read_u8(m, r.hl).value + 1)), 12)
      [] ins.op = "LD_A_mHL" -> Ran(load_a(m, read_u8(m, r.hl)), 8)
      [] ins.op = "LD_A_mHLdec" ->
           Ran([load_a(m, read_u8(m, r.hl))
                EXCEPT !.cpu.registers.hl = U16(@ + 65535)], 8)
      [] ins.op = "LD_A_mHLinc" ->
           Ran([load_a(m, read_u8(m, r.hl))
                EXCEPT !.cpu.registers.hl = U16(@ + 1)], 8)
      [] ins.op = "LD_mHLdec_A" ->
           Ran([write_u8(m, r.hl, read_a(r))
                EXCEPT !.cpu.registers.hl = U16(@ + 65535)], 8)
      [] ins.op = "LD_mHLinc_A" ->
           Ran([write_u8(m, r.hl, read_a(r))
                EXCEPT !.cpu.registers.hl = U16(@ + 1)], 8)
      [] ins.op = "LD_FFu8_A" ->
           Ran(write_u8(m, 65280 + ins.imm, read_a(r)), 12)
      [] ins.op = "LD_FFC_A" ->
           Ran(write_u8(m, 65280 + read_r8(r, "C"), read_a(r)), 8)
      [] ins.op = "LD_A_FFu8" ->
           Ran(load_a(m, read_u8(m, 65280 + ins.imm)), 12)
      [] ins.op = "LD_mu16_SP" ->
           Ran(write_u8(write_u8(m, ins.imm, r.sp % 256),
                        U16(ins.imm + 1), r.sp \div 256), 20)
      [] ins.op = "LD_r8_mr16" ->
           Ran(read_then(m, read_u8(m, read_r16(r, ins.y)),
                         write_r8(r, ins.x,
                                  read_u8(m, read_r16(r, ins.y)).value)), 8)
      [] ins.op = "RL_r8" ->
           Ran(with_registers(m,
                   write_r8(rotate_left_with(r, read_r8(r, ins.x),
                                             read_flag(r, "C")).r,
                            ins.x,
                            rotate_left_with(r, read_r8(r, ins.x),
                                             read_flag(r, "C")).res)), 8)
      [] ins.op = "RLA" ->
           Ran(with_registers(m,
                   write_flag(
                       write_a(rotate_left_with(r, read_a(r),
                                                read_flag(r, "C")).r,
                               rotate_left_with(r, read_a(r),
                                                read_flag(r, "C")).res),
                       "Z", FALSE)), 4)
      [] ins.op = "RRA" ->
           Ran(with_registers(m,
                   write_flag(
                       write_a(rotate_right_with(r, read_a(r),
                                                 read_flag(r, "C")).r,
                               rotate_right_with(r, read_a(r),
                                                 read_flag(r, "C")).res),
                       "Z", FALSE)), 4)
      [] ins.op = "RR_r8" ->
           Ran(with_registers(m,
                   write_r8(rotate_right_with(r, read_r8(r, ins.x),
                                              read_flag(r, "C")).r,
                            ins.x,
                            rotate_right_with(r, read_r8(r, ins.x),
                                              read_flag(r, "C")).res)), 8)
      [] ins.op = "SRL_r8" ->
           Ran(with_registers(m,
                   write_r8(shift_right_logically(r, read_r8(r, ins.x)).r,
                            ins.x,
                            shift_right_logically(r, read_r8(r, ins.x)).res)),
               8)
      [] ins.op = "Prefix" -> Ran(panic(m), 0)

MemoryOps ==
    {"ADD_A_mHL", "CP_A_mHL", "OR_A_mHL", "XOR_A_mHL", "AND_L", "OR_r8",
     "SBC_A_A", "SBC_A_C", "DEC_mHL", "INC_mHL", "LD_A_mHL", "LD_A_mHLdec",
     "LD_A_mHLinc", "LD_mHLdec_A", "LD_mHLinc_A", "LD_FFu8_A", "LD_FFC_A",
     "LD_A_FFu8", "LD_mu16_SP", "LD_r8_mr16", "RL_r8", "RLA", "RRA", "RR_r8",
     "SRL_r8", "Prefix"}

\* The arms of the match that jump, call or return.
jump_semantics(ins, m) ==
    CASE ins.op = "CALL_a16" -> Ran(call(m, ins.imm), 24)
      [] ins.op = "CALL_cc_u16" ->
           IF holds(ins.x, m.cpu.registers) THEN Ran(call(m, ins.imm), 24)
           ELSE Ran(m, 12)
      [] ins.op = "JP_u16" -> Ran([m EXCEPT !.cpu.registers.pc = ins.imm], 16)
      [] ins.op = "JP_cc_u16" ->
           IF holds(ins.x, m.cpu.registers)
           THEN Ran([m EXCEPT !.cpu.registers.pc = ins.imm], 16)
           ELSE Ran(m, 12)
      [] ins.op = "JR_i8" -> Ran(jump_relative(m, ins.imm), 12)
      [] ins.op = "JR_cc_i8" ->
           IF holds(ins.x, m.cpu.registers)
           THEN Ran(jump_relative(m, ins.imm), 12)
           ELSE Ran(m, 8)
      [] ins.op = "RET" -> Ran(pop_pc(m), 16)
      [] ins.op = "RET_cc" ->
           IF holds(ins.x, m.cpu.registers) THEN Ran(pop_pc(m), 20)
           ELSE Ran(m, 8)
      [] ins.op = "RETI" ->
           Ran(pop_pc([m EXCEPT !.interrupts.interrupt_master_enable = TRUE]),
               16)
      [] ins.op = "RST" -> Ran(call(m, ins.imm), 16)

JumpOps ==
    {"CALL_a16", "CALL_cc_u16", "JP_u16", "JP_cc_u16", "JR_i8", "JR_cc_i8",
     "RET", "RET_cc", "RETI", "RST"}

\* The arms of the match that use the bus or the controller.
bus_semantics(ins, m) ==
    CASE ins.op = "NOP" -> Ran(m, 4)
      [] ins.op = "DI" ->
           Ran([m EXCEPT !.interrupts.interrupt_master_enable = FALSE], 4)
      [] ins.op = "EI" -> Ran(execute_EI(m), 4)
      [] ins.op = "HALT" -> Ran([m EXCEPT !.cpu.low_power_mode = TRUE], 4)
      [] ins.op = "LD_A_u8" ->
           Ran([m EXCEPT !.cpu.registers = write_a(@, ins.imm)], 8)
      [] ins.op = "LD_mu16_A" ->
           Ran(write_u8(m, ins.imm, read_a(m.cpu.registers)), 16)
      [] ins.op = "LD_A_mu16" -> Ran(load_a(m, read_u8(m, ins.imm)), 16)
      [] ins.op = "LD_mr16_r8" ->
           Ran(write_u8(m, read_r16(m.cpu.registers, ins.x),
                        read_r8(m.cpu.registers, ins.y)), 8)
      [] ins.op = "LD_SP_u16" -> Ran([m EXCEPT !.cpu.registers.sp = ins.imm], 12)
      [] ins.op = "POP_r16" -> Ran(mask_af(pop_r16(m, ins.x), ins.x), 12)
      [] ins.op = "PUSH_r16" ->
           Ran(push_imm16(m, byte_to_push(m.cpu.registers, ins.x)), 16)
      [] ins.op = "Illegal" -> Ran(panic(m), 0)

\* The match of Instruction::execute (semantics.rs:114-908), for the
\* instructions the guest programs of this model are made of.
semantics(ins, m) ==
    IF ins.op \in JumpOps THEN jump_semantics(ins, m)
    ELSE IF ins.op \in {"NOP", "DI", "EI", "HALT", "LD_A_u8", "LD_mu16_A",
                        "LD_A_mu16", "LD_mr16_r8", "LD_SP_u16", "POP_r16",
                        "PUSH_r16", "Illegal"}
    THEN bus_semantics(ins, m)
    ELSE IF ins.op \in MemoryOps
    THEN memory_semantics(ins, m, m.cpu.registers)
    ELSE register_semantics(ins, m, m.cpu.registers)

\* EI effects are delayed by one instruction, we resolve it here
resolve_delayed_EI(m) ==
    IF m.interrupts.interrupt_master_enable_delayed
    THEN [m EXCEPT !.interrupts.interrupt_master_enable_delayed = FALSE,
                   !.interrupts.interrupt_master_enable = TRUE]
    ELSE m

\* Instruction::execute: the machine after the instruction and its t-cycles.
execute(ins, m) == semantics(ins, resolve_delayed_EI(m))

\* The result of the CPU's or the interrupt controller's part of a step: the
\* machine, the t-cycles returned, and as history the DecodedInstruction that
\* was executed, the interrupt taken and the controller as acknowledged
\* (each an Option: {} or a singleton).
Did(m, t_cycles, executed, interrupt, acked) ==
    [m |-> m, t_cycles |-> t_cycles, executed |-> executed,
     interrupt |-> interrupt, acked |-> acked]

decoded(r, address, ins) ==
    Did(r.m, r.t_cycles, {[address |-> address, instruction |-> ins]}, {}, {})

\* A wrong wake-up: any flagged interrupt wakes the CPU, enabled or not.
stays_in_low_power_until_flagged(m) ==
    m.cpu.low_power_mode /\ And8(m.interrupts.interrupt_flag, 31) = 0

\* cpu.rs:39-40: in low-power mode with no interrupt pending.
stays_in_low_power(m) == m.cpu.low_power_mode /\ ~is_interrupt_pending(m)

\* A wrong order: the semantics run at the instruction's own address and PC
\* is moved afterwards.
CPU_execute_one_instruction_pc_after(m, ins) ==
    IF stays_in_low_power(m)
    THEN Did(m, 4, {}, {}, {})
    ELSE LET r == execute(ins, [m EXCEPT !.cpu.low_power_mode = FALSE])
         IN decoded([r EXCEPT !.m.cpu.registers.pc =
                                  U16(@ + ins.instruction_size)],
                    m.cpu.registers.pc, ins)

\* `ins` is the instruction the bytes at PC decode to.
CPU_execute_one_instruction(m, ins) ==
    IF stays_in_low_power(m)
    THEN \* Otherwise, force the other components to move forward
         Did(m, 4, {}, {}, {})
    ELSE \* Fall through on wakeup to execute one instruction.  PC is moved
         \* past the instruction before its semantics run.
         decoded(execute(ins, [m EXCEPT !.cpu.low_power_mode = FALSE,
                                        !.cpu.registers.pc =
                                            U16(@ + ins.instruction_size)]),
                 m.cpu.registers.pc, ins)

\* interrupts.rs:67-69
acknowledge(m, interrupt) ==
    [m EXCEPT !.interrupts.interrupt_flag = And8(@, Not8(Shl8(1, interrupt))),
              !.interrupts.interrupt_master_enable = FALSE]

\* interrupts.rs:79
dispatched(r, interrupt, acked) ==
    Did(r.m, U8(20 + r.t_cycles), r.executed, {interrupt}, {acked})

\* interrupts.rs:75-78.  m is the machine as acknowledged.
enter_handler(m, interrupt, ins) ==
    dispatched(
        CPU_execute_one_instruction(
            [push_imm16(m, m.cpu.registers.pc) EXCEPT
                !.cpu.registers.pc = interrupt_handler_offset(interrupt)],
            ins),
        interrupt, m.interrupts)

dispatch(m, taken, ins) ==
    IF taken = {} THEN Did(m, 0, {}, {}, {})
    ELSE enter_handler(acknowledge(m, CHOOSE i \in taken : TRUE),
                       CHOOSE i \in taken : TRUE, ins)

handle_interrupts(m, ins) == dispatch(m, should_handle_interrupt(m), ins)

count_cycles(m, t_cycles) ==
    IF m.panicked THEN m ELSE [m EXCEPT !.t_cycle_count = @ + t_cycles]

\* A wrong clock: the PPU misses the 20 t-cycles of an interrupt dispatch.
tick_components_ppu_unpaid(r, b) ==
    [r EXCEPT !.m =
        count_cycles(
            PPU_ticks(Timers_ticks(r.m, b, r.t_cycles),
                      IF r.interrupt = {} THEN r.t_cycles
                      ELSE r.t_cycles - 20),
            r.t_cycles)]

\* application_state.rs:147-155
tick_components(r, b) ==
    [r EXCEPT !.m =
        count_cycles(PPU_ticks(Timers_ticks(r.m, b, r.t_cycles), r.t_cycles),
                     r.t_cycles)]

\* application_state.rs:144-146
execute_unless_dispatched(h, m, ins) ==
    IF h.t_cycles = 0 THEN CPU_execute_one_instruction(m, ins) ELSE h

step_from(m, ins, b) ==
    tick_components(execute_unless_dispatched(handle_interrupts(m, ins), m, ins),
                    b)

\* ApplicationState::step_machine.  `b` is the build.
step_machine(m, ins, b) == step_from([m EXCEPT !.obs_writes = << >>], ins, b)

----------------------------------------------------------------------------
(* The machine stepped by the driver *)

IF_ADDRESS == 65295
IE_ADDRESS == 65535

\* The descriptor of an MBC1 cartridge without RAM.
MBC1Rom(rom_banks) ==
    [mapper_type |-> "MBC1", ram_size |-> "NoRAM", rom_banks |-> rom_banks]

\* ApplicationState::new (application_state.rs:85-115) and where the driver
\* is: `at` is "update" between two messages and "execute_one_instruction"
\* inside the loop of that function; `message` is the message being, or last,
\* handled; `queued` says ContinueRunUntilBreakpoint has been sent by a
\* handler (Task::done).  machine_steps, instructions and checked are
\* history: the calls of step_machine and the instructions executed since
\* the message was received, and whether the pause flag and the breakpoints
\* were read after the last call of step_machine.
ApplicationState_new(breakpoints) ==
    [breakpoints |-> breakpoints, paused |-> FALSE,
     at |-> "update", message |-> "none", queued |-> FALSE,
     remaining_steps |-> 0, total_t_cycles |-> 0,
     machine_steps |-> 0, instructions |-> 0, checked |-> FALSE]

NoOp == [kind |-> "init", pre |-> {}, t_cycles |-> 0, executed |-> {},
         interrupt |-> {}, acked |-> {}, before |-> {}]

\* A guest program around the interrupt controller and the divider.
InterruptProgram ==
    {Ins("NOP", 0), Ins("EI", 0), Ins("DI", 0), Ins("HALT", 0), Ins("RETI", 0),
     Ins("LD_mu16_A", IF_ADDRESS), Ins("LD_mu16_A", IE_ADDRESS),
     Ins("LD_mu16_A", DIVIDE_REGISTER_ADDRESS)}

\* The machine some way into a guest program: the registers and the interrupt
\* controller hold values guest code can have put there.  The enable-pending
\* latch is never set in low-power mode: every executed instruction clears it.
Init ==
    /\ machine \in
         {[Machine_new(MBC1Rom(4)) EXCEPT
             !.dmg_boot_rom = 1,
             !.cpu.low_power_mode = ld[1],
             !.cpu.registers = [Registers_new EXCEPT
                                   !.af = 1536, !.sp = sp, !.pc = 336],
             !.interrupts = [interrupt_master_enable |-> ime,
                             interrupt_master_enable_delayed |-> ld[2],
                             interrupt_enable |-> ie,
                             interrupt_flag |-> if],
             !.timers.divide_register = 7,
             !.timers.divide_register_dots = dd] :
            ld \in {x \in BOOLEAN \X BOOLEAN : ~(x[1] /\ x[2])},
            ime \in BOOLEAN,
            ie \in {0, 31, 4}, if \in {0, 6, 225},
            sp \in {65534}, dd \in {250}}
    /\ last = NoOp
    /\ steps = 0
    /\ build = "debug"
    /\ program = InterruptProgram
    /\ app = ApplicationState_new({})

Apply(kind, ins) ==
    LET r == step_machine(machine, ins, build)
    IN /\ machine' = r.m
       /\ last' = [kind |-> kind, pre |-> {machine}, t_cycles |-> r.t_cycles,
                   executed |-> r.executed, interrupt |-> r.interrupt,
                   acked |-> r.acked, before |-> last.executed]
       /\ steps' = steps + 1
       /\ UNCHANGED <<build, program, app>>

\* A step that dispatches an interrupt and runs the handler's first fetch.
StepDispatch ==
    /\ steps < MaxSteps /\ ~machine.panicked
    /\ should_handle_interrupt(machine) # {}
    /\ \E ins \in program : Apply("dispatch", ins)

\* A step that fetches and executes the instruction at PC.
StepExecute ==
    /\ steps < MaxSteps /\ ~machine.panicked
    /\ should_handle_interrupt(machine) = {}
    /\ ~machine.cpu.low_power_mode \/ is_interrupt_pending(machine)
    /\ \E ins \in program : Apply("execute", ins)

\* A step in low-power mode with nothing pending: the 4-cycle filler.
StepIdle ==
    /\ steps < MaxSteps /\ ~machine.panicked
    /\ should_handle_interrupt(machine) = {}
    /\ machine.cpu.low_power_mode /\ ~is_interrupt_pending(machine)
    /\ Apply("idle", Ins("NOP", 0))

Next == StepDispatch \/ StepExecute \/ StepIdle

Spec == Init /\ [][Next]_vars

LcdStaysOff == ~is_lcd_ppu_on(machine)

----------------------------------------------------------------------------
(* Reading the history of the last operation *)

Stepped == last.kind \in {"dispatch", "execute", "idle"} /\ ~machine.panicked
Pre == CHOOSE m \in last.pre : TRUE
Executed == CHOOSE d \in last.executed : TRUE
Taken == CHOOSE i \in last.interrupt : TRUE
Acked == CHOOSE i \in last.acked : TRUE
ExecutedOp(op) == last.executed # {} /\ Executed.instruction.op = op

\* The t-cycles of an instruction, from the opcode table.
CostOf(op) ==
    CASE op \in {"NOP", "DI", "EI", "HALT"} -> 4
      [] op = "LD_A_u8" -> 8
      [] op = "LD_SP_u16" -> 12
      [] op \in {"RETI", "LD_mu16_A", "LD_A_mu16", "JP_u16"} -> 16

\* The lowest bit set in x (x # 0).
LowestBit(x) == CHOOSE i \in 0..7 :
                   /\ (x \div (2 ^ i)) % 2 = 1
                   /\ \A j \in 0..i-1 : (x \div (2 ^ j)) % 2 = 0

PendingMask(m) ==
    And8(And8(m.interrupts.interrupt_enable, m.interrupts.interrupt_flag), 31)

----------------------------------------------------------------------------
(* C1: in every step -- dispatch, normal instruction or the 4-cycle          *)
(* low-power filler -- the timer and the PPU are ticked by exactly the       *)
(* t-cycles the step's interrupt/CPU work returned and the total-cycles      *)
(* counter grows by the same amount, so the three stay equal.                *)

C1_ClocksInLockstep ==
    ~machine.panicked =>
        /\ machine.timers.obs_dots = machine.t_cycle_count
        /\ machine.ppu.obs_dots = machine.t_cycle_count
        /\ Stepped =>
             /\ machine.t_cycle_count = Pre.t_cycle_count + last.t_cycles
             /\ machine.timers.obs_dots = Pre.timers.obs_dots + last.t_cycles
             /\ machine.ppu.obs_dots = Pre.ppu.obs_dots + last.t_cycles
             /\ last.kind = "idle" => last.t_cycles = 4
             /\ last.kind = "execute" =>
                    last.t_cycles = CostOf(Executed.instruction.op)
             /\ last.kind = "dispatch" => last.t_cycles >= 24

C1_Witness ==
    /\ Stepped /\ steps = 3
    /\ last.kind = "dispatch"
    /\ machine.t_cycle_count >= 44
    /\ machine.ppu.obs_dots = machine.t_cycle_count
    /\ Pre.cpu.low_power_mode

----------------------------------------------------------------------------
(* C2: whenever dispatch takes an interrupt, in every CPU state including    *)
(* low-power mode, it clears IME, sets PC to 0x40 + 8*bit, executes exactly  *)
(* one instruction from the handler in the same step and returns 20 t-cycles *)
(* plus the cost of that instruction.                                        *)

C2_DispatchRunsHandlerInstruction ==
    (Stepped /\ last.kind = "dispatch") =>
        /\ ~Acked.interrupt_master_enable
        /\ Cardinality(last.executed) = 1
        /\ Executed.address = 64 + 8 * Taken
        /\ last.t_cycles = 20 + CostOf(Executed.instruction.op)

----------------------------------------------------------------------------
(* C3: with IME set, dispatch selects the lowest-numbered bit set in         *)
(* IE & IF & 0x1F, clears only that bit of IF and leaves the other IF bits   *)
(* and IE unchanged, and pushes the pre-dispatch PC, high byte at old SP-1   *)
(* and low byte at old SP-2; e.g. IE=0x1F, IF=0x06 selects STAT and leaves   *)
(* IF=0x04.  IF and IE are compared as the controller leaves them, before    *)
(* the stack writes and the handler's instruction reach the bus.             *)

C3_DispatchPriorityAndPush ==
    (Stepped /\ last.kind = "dispatch") =>
        /\ Pre.interrupts.interrupt_master_enable
        /\ PendingMask(Pre) # 0
        /\ Taken = LowestBit(PendingMask(Pre))
        /\ Acked.interrupt_flag = Pre.interrupts.interrupt_flag - 2 ^ Taken
        /\ Acked.interrupt_enable = Pre.interrupts.interrupt_enable
        /\ Len(machine.obs_writes) >= 2
        /\ machine.obs_writes[1] =
              <<U16(Pre.cpu.registers.sp + 65535),
                Pre.cpu.registers.pc \div 256>>
        /\ machine.obs_writes[2] =
              <<U16(Pre.cpu.registers.sp + 65534),
                Pre.cpu.registers.pc % 256>>
        /\ (Pre.interrupts.interrupt_enable = 31
              /\ Pre.interrupts.interrupt_flag = 6) =>
             (Taken = STAT_INTERRUPT_BIT /\ Acked.interrupt_flag = 4)

C3_Witness ==
    /\ Stepped /\ last.kind = "dispatch"
    /\ Pre.interrupts.interrupt_enable = 31
    /\ Pre.interrupts.interrupt_flag = 6
    /\ Taken = 1
    /\ Acked.interrupt_flag = 4
    /\ load(machine, 65533) = 1 /\ load(machine, 65532) = 80

----------------------------------------------------------------------------
(* C4: whenever a step begins in low-power mode with an enabled interrupt    *)
(* pending, for either value of IME, the CPU has left low-power mode and     *)
(* fetched an instruction by the end of that step.                           *)

C4_PendingInterruptWakesCpu ==
    (Stepped /\ Pre.cpu.low_power_mode /\ PendingMask(Pre) # 0) =>
        last.executed # {}

----------------------------------------------------------------------------
(* C5: EI does not set IME itself, it sets the enable-pending latch, which   *)
(* becomes IME at the start of the next executed instruction; so after EI    *)
(* with IME clear no interrupt is dispatched before the instruction after EI *)
(* has executed, and DI takes effect at once (EI; DI ends with IME false).   *)

C5_EiIsDelayedDiIsNot ==
    Stepped =>
        /\ (last.kind = "execute" /\ ExecutedOp("EI")) =>
              /\ machine.interrupts.interrupt_master_enable_delayed
              /\ machine.interrupts.interrupt_master_enable =
                    (Pre.interrupts.interrupt_master_enable
                     \/ Pre.interrupts.interrupt_master_enable_delayed)
        /\ (Pre.interrupts.interrupt_master_enable_delayed
              /\ ~Pre.interrupts.interrupt_master_enable) =>
              /\ last.kind = "execute" /\ last.interrupt = {}
              /\ last.executed # {}
              /\ ~ExecutedOp("EI") =>
                    ~machine.interrupts.interrupt_master_enable_delayed
              /\ machine.interrupts.interrupt_master_enable = ~ExecutedOp("DI")
        /\ ExecutedOp("DI") =>
              /\ ~machine.interrupts.interrupt_master_enable
              /\ ~machine.interrupts.interrupt_master_enable_delayed

C5_Witness ==
    /\ Stepped /\ steps >= 2
    /\ \E d \in last.before : d.instruction.op = "EI"
    /\ ~Pre.interrupts.interrupt_master_enable
    /\ Pre.interrupts.interrupt_master_enable_delayed
    /\ PendingMask(Pre) # 0
    /\ ExecutedOp("DI")
    /\ ~machine.interrupts.interrupt_master_enable

----------------------------------------------------------------------------
(* C8: a guest write to the divider's address (0xFF04) does not change DIV   *)
(* at the write: DIV keeps counting through all the dots of the step that    *)
(* contains the write and is zero once the step's full cost has been ticked. *)
(* The reset-pending flag is consumed exactly once: a step without a DIV     *)
(* write resets nothing.                                                     *)

WroteDivider ==
    \E i \in 1..Len(machine.obs_writes) :
        machine.obs_writes[i][1] = DIVIDE_REGISTER_ADDRESS

\* DIV after counting the step's dots from its value before the step.
DividerCounted ==
    U8(Pre.timers.divide_register
       + (Pre.timers.divide_register_dots + last.t_cycles) \div 256)

C8_DividerResetIsDeferred ==
    Stepped =>
        /\ ~machine.timers.divide_register_to_be_reset
        /\ machine.timers.divide_register_dots =
              (Pre.timers.divide_register_dots + last.t_cycles) % 256
        /\ WroteDivider =>
              /\ machine.timers.divide_register = 0
              /\ machine.timers.obs_resets = Pre.timers.obs_resets + 1
              /\ machine.timers.obs_divider_at_reset = DividerCounted
        /\ ~WroteDivider =>
              /\ machine.timers.divide_register = DividerCounted
              /\ machine.timers.obs_resets = Pre.timers.obs_resets

C8_Witness ==
    /\ Stepped /\ WroteDivider
    /\ Pre.timers.divide_register = 7
    /\ Pre.timers.divide_register_dots = 250
    /\ machine.timers.obs_divider_at_reset = 8
    /\ machine.timers.divide_register = 0
    /\ machine.timers.divide_register_dots = 10

----------------------------------------------------------------------------
(* The timer driven directly: ticks as step_machine feeds them, and guest    *)
(* writes to TIMA, TMA and TAC as write_u8 routes them (machine.rs:380).     *)

TimerOp(kind, dots, m) ==
    /\ machine' = m
    /\ last' = [kind |-> kind, pre |-> {machine}, t_cycles |-> dots,
                executed |-> {}, interrupt |-> {}, acked |-> {}, before |-> {}]
    /\ steps' = steps + 1
    /\ UNCHANGED <<build, program, app>>

InitTimer ==
    /\ machine \in
         {[Machine_new(MBC1Rom(4)) EXCEPT
             !.dmg_boot_rom = 1,
             !.timers.timer_counter = tima,
             !.timers.timer_modulo = tma] :
            tima \in {0, 255}, tma \in {0, 66}}
    /\ last = NoOp
    /\ steps = 0
    /\ build = "debug"
    /\ program = {}
    /\ app = ApplicationState_new({})

\* Timers::ticks for one dot or for the 16 t-cycles of a long instruction.
TimersTicks ==
    /\ steps < MaxTimerOps /\ ~machine.panicked
    /\ \E dots \in {1, 16} :
          TimerOp("ticks", dots, Timers_ticks(machine, build, dots))

\* A guest write to TIMA, TMA or TAC.
TimersWrite ==
    /\ steps < MaxTimerOps /\ ~machine.panicked
    /\ \E w \in {<<TIMER_CONTROL_ADDRESS, 4>>, <<TIMER_CONTROL_ADDRESS, 5>>,
                 <<TIMER_CONTROL_ADDRESS, 1>>, <<TIMER_COUNTER_ADDRESS, 255>>,
                 <<TIMER_MODULO_ADDRESS, 66>>} :
          TimerOp("write", 0,
                  write_u8([machine EXCEPT !.obs_writes = << >>], w[1], w[2]))

NextTimer == TimersTicks \/ TimersWrite

SpecTimer == InitTimer /\ [][NextTimer]_vars

Ticked == last.kind = "ticks" /\ ~machine.panicked
TimerEnabled(m) == is_bit_set(m.timers.timer_control, 2)

----------------------------------------------------------------------------
(* C6: across any sequence of timer ticks and guest writes to the timer      *)
(* registers, every overflow of the counter (TIMA incremented from 0xFF)     *)
(* reloads TIMA from TMA and raises exactly one timer interrupt request      *)
(* (IF bit 2), and the timer raises no request at any other time.            *)

C6_OverflowReloadsAndRequestsOnce ==
    ~machine.panicked =>
        /\ machine.timers.obs_requests = machine.timers.obs_overflows
        /\ last.kind = "write" =>
              /\ machine.timers.obs_requests = Pre.timers.obs_requests
              /\ machine.interrupts = Pre.interrupts
        /\ Ticked =>
              /\ machine.timers.obs_overflows
                    \in {Pre.timers.obs_overflows, Pre.timers.obs_overflows + 1}
              /\ machine.timers.obs_overflows = Pre.timers.obs_overflows =>
                    machine.interrupts = Pre.interrupts
              /\ machine.timers.obs_overflows = Pre.timers.obs_overflows + 1 =>
                    /\ machine.timers.timer_counter = machine.timers.timer_modulo
                    /\ machine.interrupts.interrupt_flag =
                          Or8(Pre.interrupts.interrupt_flag, 4)

C6_Witness ==
    /\ Ticked
    /\ machine.timers.obs_overflows = 1
    /\ machine.timers.obs_requests = 1
    /\ Pre.timers.timer_counter = 255
    /\ machine.timers.timer_modulo = 66
    /\ machine.timers.timer_counter = 66
    /\ machine.interrupts.interrupt_flag = 4

----------------------------------------------------------------------------
(* C7 as stated: with TAC enabling the fastest rate (every 16 dots),         *)
(* TIMA = 0xFF and the dot sub-counter at zero, ticking 16 dots leaves TIMA  *)
(* at 0x00, the reload from TMA happening only at a later check, and         *)
(* exactly one timer interrupt request is raised.                            *)

FastestRateAtWrap ==
    /\ Ticked /\ last.t_cycles = 16
    /\ Pre.timers.timer_control % 8 = 5
    /\ Pre.timers.timer_counter = 255
    /\ Pre.timers.timer_counter_dots = 0

C7_ReloadOnLaterCheck ==
    FastestRateAtWrap =>
        /\ machine.timers.timer_counter = 0
        /\ machine.timers.obs_requests = Pre.timers.obs_requests + 1

(* C7 as the code has it: in that state, ticking 16 dots wraps TIMA and      *)
(* reloads it from TMA within the tick of the wrap, so TIMA holds TMA after  *)
(* the 16 dots, and exactly one timer interrupt request is raised.           *)

C7_ReloadInTickOfWrap ==
    FastestRateAtWrap =>
        /\ machine.timers.timer_counter = Pre.timers.timer_modulo
        /\ machine.timers.timer_counter_dots = 0
        /\ machine.timers.obs_overflows = Pre.timers.obs_overflows + 1
        /\ machine.timers.obs_requests = Pre.timers.obs_requests + 1
        /\ is_bit_set(machine.interrupts.interrupt_flag, TIMER_INTERRUPT_BIT)

C7_Witness ==
    /\ FastestRateAtWrap
    /\ Pre.timers.timer_modulo = 66
    /\ machine.timers.timer_counter = 66
    /\ machine.timers.obs_requests = 1

----------------------------------------------------------------------------
(* C9: while the timer enable bit (TAC bit 2) is set, TIMA increments once   *)
(* every N ticked dots, N being the period the rate field selects (16, 64,   *)
(* 256 or 1024), also after the guest rewrites TAC to another rate in the    *)
(* middle of a period: the next increment comes no later than N dots of the  *)
(* new period after the write.  While the bit is clear, ticking never        *)
(* changes TIMA.                                                             *)

C9_IncrementWithinPeriod ==
    ~machine.panicked =>
        /\ TimerEnabled(machine) =>
              machine.timers.obs_quiet_dots
                  < get_timer_counter_threshold(machine.timers)
        /\ (Ticked /\ ~TimerEnabled(Pre)) =>
              machine.timers.timer_counter = Pre.timers.timer_counter

----------------------------------------------------------------------------
(* The MMU of an MBC1 cartridge driven directly: guest writes to the mapper  *)
(* registers and guest reads of the switchable window 0x4000-0x7FFF, with    *)
(* the boot ROM disabled.  The cartridge image holds 4 banks (64 KiB) or     *)
(* 128 banks (2 MiB), the largest the 7 bank-select bits can address.        *)

CartridgeBanks == {4, 128}

BankOp(kind, address, value, m, result) ==
    /\ machine' = m
    /\ last' = [kind |-> kind, pre |-> {machine}, address |-> address,
                value |-> value, result |-> result]
    /\ steps' = steps + 1
    /\ UNCHANGED <<build, program, app>>

BankWriteOp(kind, address, value) ==
    BankOp(kind, address, value,
           write_u8([machine EXCEPT !.obs_writes = << >>], address, value), {})

read_to(m, r) == IF r.panicked THEN panic(m) ELSE m

InitBank ==
    /\ machine \in {[Machine_new(MBC1Rom(banks)) EXCEPT !.dmg_boot_rom = 1] :
                      banks \in CartridgeBanks}
    /\ last = NoOp
    /\ steps = 0
    /\ build = "debug"
    /\ program = {}
    /\ app = ApplicationState_new({})

\* A guest write to the ROM bank register, 0x2000-0x3FFF.
WriteRomBank ==
    /\ steps < MaxBankOps /\ ~machine.panicked
    /\ \E address \in {8192, 8448, 16383}, value \in {0, 2, 5, 31, 34, 227} :
          BankWriteOp("rom_bank", address, value)

\* A guest write to the RAM / upper ROM bank register, 0x4000-0x5FFF.
WriteUpperBank ==
    /\ steps < MaxBankOps /\ ~machine.panicked
    /\ \E value \in {0, 1, 3, 254} : BankWriteOp("upper_bank", 16384, value)

\* A guest write to the banking mode register, 0x6000-0x7FFF.
WriteBankingMode ==
    /\ steps < MaxBankOps /\ ~machine.panicked
    /\ \E value \in {0, 1} : BankWriteOp("mode", 24576, value)

\* A guest read of the switchable window.
ReadBank ==
    /\ steps < MaxBankOps /\ ~machine.panicked
    /\ \E k \in {0, 1, 16383} :
          BankOp("read", 16384 + k, 0,
                 read_to(machine, read_u8(machine, 16384 + k)),
                 {read_u8(machine, 16384 + k).value})

NextBank == WriteRomBank \/ WriteUpperBank \/ WriteBankingMode \/ ReadBank

SpecBank == InitBank /\ [][NextBank]_vars

----------------------------------------------------------------------------
(* C10: for an MBC1 cartridge with the boot ROM disabled, after the guest    *)
(* writes v to an address in 0x2000-0x3FFF, a read of 0x4000+k returns the   *)
(* raw cartridge ROM byte at offset bank*0x4000 + k, bank being v & 0x1F     *)
(* combined with the 2-bit upper select shifted left by 5 while in ROM       *)
(* banking mode; writing 0x02 to 0x2100 and reading 0x4000 returns the byte  *)
(* at raw ROM offset 2*0x4000.                                               *)

\* The bank the claim names, from the registers before the read.
SelectedBank(m) ==
    IF m.banking_mode = "Rom"
    THEN (m.loram_bank % 32) + 32 * m.ram_or_hiram_bank
    ELSE m.loram_bank % 32

C10_BankedReadReturnsRomByte ==
    /\ last.kind = "rom_bank" => machine.loram_bank = last.value % 32
    /\ last.kind = "read" =>
          /\ ~machine.panicked
          /\ last.result =
                {game_rom(SelectedBank(Pre) * BANK_SIZE + last.address - 16384)}
          /\ (Pre.loram_bank = 2 /\ Pre.ram_or_hiram_bank = 0
                /\ last.address = 16384) =>
                last.result = {game_rom(2 * BANK_SIZE)}

----------------------------------------------------------------------------
(* The address space driven directly from the state after construction:     *)
(* guest writes and guest reads over the boot-ROM overlay, the mapper        *)
(* registers, external RAM, an I/O address without a register and the       *)
(* boot-ROM disable register, and OAM DMA transfers, for each kind of        *)
(* cartridge.                                                                *)

MaxMmuOps == 3

RomInformation(mapper_type, ram_size, rom_banks) ==
    [mapper_type |-> mapper_type, ram_size |-> ram_size,
     rom_banks |-> rom_banks]

MmuCartridges ==
    {RomInformation("ROMOnly", "NoRAM", 2), RomInformation("MBC1", "NoRAM", 4),
     RomInformation("MBC1", "Ram8kb", 4), RomInformation("Other", "NoRAM", 4)}

\* The addresses written: 0x0100, 0x2000, 0xA000, 0xFF50
MmuAddresses == {256, 8192, 40960, 65360}

\* The addresses read: 0x0000, 0x4000, 0xA000, 0xFF4C
MmuReadAddresses == {0, 16384, 40960, 65356}

OAM_DMA_ADDRESS == 65350

\* The source pages of an OAM DMA: 0x0100-0x019F, in cartridge ROM.
DmaPages == {1}

MmuValues == {0, 1, 10}

InitMmu ==
    /\ machine \in {Machine_new(rom_information) :
                      rom_information \in MmuCartridges}
    /\ last = NoOp
    /\ steps = 0
    /\ build = "debug"
    /\ program = {}
    /\ app = ApplicationState_new({})

\* A guest write of one byte.
GuestWrite ==
    /\ steps < MaxMmuOps /\ ~machine.panicked
    /\ \E address \in MmuAddresses, value \in MmuValues :
          BankWriteOp("guest_write", address, value)

\* A guest read of one byte.
GuestRead ==
    /\ steps < MaxMmuOps /\ ~machine.panicked
    /\ \E address \in MmuReadAddresses :
          BankOp("guest_read", address, 0,
                 read_to(machine, read_u8(machine, address)),
                 {read_u8(machine, address).value})

\* A guest write to 0xFF46: the OAM DMA transfer of 160 bytes.
GuestOamDma ==
    /\ steps < MaxMmuOps /\ ~machine.panicked
    /\ \E page \in DmaPages :
          BankWriteOp("guest_write", OAM_DMA_ADDRESS, page)

NextMmu == GuestWrite \/ GuestRead \/ GuestOamDma

SpecMmu == InitMmu /\ [][NextMmu]_vars

GuestRan(kind) == last.kind = kind /\ ~Pre.panicked

----------------------------------------------------------------------------
(* C11: reads of addresses below 0x100 return boot-ROM bytes exactly until   *)
(* the guest first writes to 0xFF50; from that write onward they return      *)
(* cartridge ROM bytes and the overlay never becomes visible again.          *)

C11_OverlayGoneAfterFirstWrite ==
    (GuestRan("guest_read") /\ last.address < 256) =>
        last.result = {IF Pre.obs_ff50_written THEN game_rom(last.address)
                       ELSE boot_rom(last.address)}

----------------------------------------------------------------------------
(* C12: the RAM-enable latch gates external RAM.  While the latch is off     *)
(* (initially, and after any write to 0x0000-0x1FFF whose low nibble is not  *)
(* 0xA) a guest write to 0xA000-0xBFFF leaves external RAM unchanged; only   *)
(* while it is on do such writes change RAM.                                 *)

ExternalRam == 40960..49151

C12_RamLatchGatesWrites ==
    /\ (GuestRan("guest_write") /\ last.address \in 0..8191
          /\ ~machine.panicked /\ Pre.rom_information.mapper_type = "MBC1") =>
          machine.is_ram_enabled = (last.value % 16 = 10)
    /\ (GuestRan("guest_write") /\ last.address \in ExternalRam
          /\ ~Pre.is_ram_enabled) =>
          \A a \in ExternalRam \cap MmuAddresses : load(machine, a) = load(Pre, a)

----------------------------------------------------------------------------
(* C13: read(addr) is total: for every 16-bit address and every reachable    *)
(* machine state it returns a byte without aborting and without changing     *)
(* any state.                                                                *)

C13_ReadIsTotal ==
    GuestRan("guest_read") =>
        /\ ~machine.panicked
        /\ machine = Pre
        /\ \E byte \in 0..255 : last.result = {byte}

----------------------------------------------------------------------------
(* C14: constructing a Machine for a cartridge whose mapper is neither       *)
(* ROM-only nor MBC1 fails at construction time: the emulator never reaches  *)
(* a state in which memory accesses run on such a machine and the failure    *)
(* surfaces at one of them.                                                  *)

C14_UnsupportedMapperNeverRuns ==
    machine.rom_information.mapper_type = "Other" =>
        last.kind \notin {"guest_write", "guest_read"}

----------------------------------------------------------------------------
(* C15: no sequence of guest writes -- writes into 0x0000-0x7FFF and OAM DMA *)
(* included -- ever changes a byte of the cartridge ROM buffer; a write into *)
(* 0x0000-0x7FFF only updates mapper registers for MBC1 and changes nothing  *)
(* for ROM-only.                                                             *)

\* The machine without the mapper registers and the history of bus writes.
BesideMapperRegisters(m) ==
    [m EXCEPT !.is_ram_enabled = FALSE, !.loram_bank = 0,
              !.ram_or_hiram_bank = 0, !.banking_mode = "Rom",
              !.obs_writes = << >>]

BesideHistory(m) == [m EXCEPT !.obs_writes = << >>]

C15_RomBufferIsNeverWritten ==
    /\ machine.game_rom_writes = EmptyMem
    /\ (GuestRan("guest_write") /\ ~machine.panicked
          /\ last.address \in 0..32767) =>
          /\ Pre.rom_information.mapper_type = "ROMOnly" =>
                BesideHistory(machine) = BesideHistory(Pre)
          /\ Pre.rom_information.mapper_type = "MBC1" =>
                BesideMapperRegisters(machine) = BesideMapperRegisters(Pre)

\* An MBC1 bank switch and an OAM DMA out of ROM have both run.
C15_Witness ==
    /\ GuestRan("guest_write") /\ ~machine.panicked
    /\ last.address = 8192 /\ machine.loram_bank # Pre.loram_bank
    /\ Pre.rom_information.mapper_type = "MBC1"
    /\ 65024 \in DOMAIN Pre.mem

----------------------------------------------------------------------------
(* The PPU driven dot by dot.  The guest sets STAT and LYC up while the LCD *)
(* is off, switches the LCD on, and may switch it off again at one of a few *)
(* dots of the frame; the PPU is ticked one dot at a time, or half a        *)
(* scanline at a time from a half-scanline boundary.  `steps` counts the    *)
(* dots fed to the PPU.                                                      *)

MaxPpuDots == 70300
MaxOffDots == 3

LCDC_ADDRESS == 65344
STAT_ADDRESS == 65345
LYC_ADDRESS == 65349

\* STAT and LYC as constructed, and with the LY=LYC interrupt selected for
\* scanline 1.
PpuSetups == {[stat |-> 2, lyc |-> 0], [stat |-> 64, lyc |-> 1]}

\* The dots at which the guest may switch the LCD off: during pixel
\* transfer, in horizontal blank and in vertical blank.
LcdOffDots == {90, 400, 66000}

\* The dot counts handed to PPU::ticks: half a scanline.
TickStrides == {228}

PpuOp(kind, m, dots, off_dots) ==
    /\ machine' = m
    /\ last' = [kind |-> kind, pre |-> {machine}, off_dots |-> off_dots]
    /\ steps' = steps + dots
    /\ UNCHANGED <<build, program, app>>

set_up(m, setup) ==
    [write_u8(write_u8(m, STAT_ADDRESS, setup.stat), LYC_ADDRESS, setup.lyc)
     EXCEPT !.obs_writes = << >>]

InitPpu ==
    /\ machine \in {set_up(Machine_new(RomInformation("ROMOnly", "NoRAM", 2)),
                           setup) : setup \in PpuSetups}
    /\ last = [kind |-> "init", pre |-> {}, off_dots |-> 0]
    /\ steps = 0
    /\ build = "debug"
    /\ program = {}
    /\ app = ApplicationState_new({})

\* The guest switches the LCD on: LCDC = 0x91.
LcdOn ==
    /\ last.kind = "init" /\ ~machine.panicked
    /\ PpuOp("lcdc", write_u8([machine EXCEPT !.obs_writes = << >>],
                              LCDC_ADDRESS, 145), 0, 0)

\* The guest switches the LCD off: LCDC = 0x11.
LcdOff ==
    /\ is_lcd_ppu_on(machine) /\ ~machine.panicked
    /\ steps \in LcdOffDots
    /\ PpuOp("lcdc", write_u8([machine EXCEPT !.obs_writes = << >>],
                              LCDC_ADDRESS, 17), 0, 0)

\* One dot.
PpuTick ==
    /\ steps < MaxPpuDots /\ ~machine.panicked
    /\ is_lcd_ppu_on(machine) \/ last.off_dots < MaxOffDots
    /\ PpuOp("tick", PPU_tick(machine), 1,
             IF is_lcd_ppu_on(machine) THEN 0 ELSE last.off_dots + 1)

\* Half a scanline in one call of PPU::ticks, from the start or the middle
\* of a scanline.
PpuTicks ==
    \E dots \in TickStrides :
        /\ steps + dots <= MaxPpuDots /\ ~machine.panicked
        /\ is_lcd_ppu_on(machine)
        /\ machine.ppu.scanline_dots % dots = 0
        /\ PpuOp("ticks", PPU_ticks(machine, dots), dots, 0)

NextPpu == LcdOn \/ LcdOff \/ PpuTick \/ PpuTicks

SpecPpu == InitPpu /\ [][NextPpu]_vars

PpuTicked == last.kind = "tick" /\ is_lcd_ppu_on(Pre) /\ ~machine.panicked

----------------------------------------------------------------------------
(* C16: a pixel FIFO (background/window and object alike) is refilled only  *)
(* when it is completely empty, and a refill puts exactly 8 pixels into it  *)
(* in a single push, never a partial push; hence in every reachable state   *)
(* each FIFO holds between 0 and 8 pixels.                                   *)

\* One dot took the FIFO from length `before` to `after`: it was emptied by
\* a reset, lost the one pixel that was output, or was refilled while empty
\* (and, for the object FIFO, gave its first pixel to the output at once).
FifoStep(before, after) ==
    \/ after = before
    \/ after = 0
    \/ after = before - 1
    \/ before = 0 /\ after \in {7, 8}

C16_FifoRefillsOnlyWhenEmpty ==
    /\ Len(machine.background_window_fetcher.fifo) \in 0..8
    /\ Len(machine.object_fetcher.fifo) \in 0..8
    /\ machine.background_window_fetcher.obs_push \subseteq Pushed(0, 8)
    /\ machine.object_fetcher.obs_push \subseteq Pushed(0, 8)
    /\ PpuTicked =>
          /\ FifoStep(Len(Pre.background_window_fetcher.fifo),
                      Len(machine.background_window_fetcher.fifo))
          /\ FifoStep(Len(Pre.object_fetcher.fifo),
                      Len(machine.object_fetcher.fifo))

\* The dot on which the object FIFO is refilled for the second time: the
\* background FIFO was refilled twice before and 8 pixels were output.
C16_Witness ==
    /\ PpuTicked
    /\ Len(Pre.object_fetcher.fifo) = 0
    /\ Len(machine.object_fetcher.fifo) = 7
    /\ machine.object_fetcher.obs_push = Pushed(0, 8)
    /\ machine.background_window_fetcher.obs_push = Pushed(0, 8)
    /\ machine.ppu.drawn_pixels_on_current_row = 9

----------------------------------------------------------------------------
(* C17: the background fetcher does not begin a new fetch cycle (it does    *)
(* not leave its initial state to read a tile-map byte or a bit-plane byte) *)
(* while its FIFO still holds any pixels.                                    *)

C17_NoFetchWhileFifoHoldsPixels ==
    (PpuTicked /\ Pre.background_window_fetcher.state = "GetTileDelay"
       /\ machine.background_window_fetcher.state = "GetTile") =>
        Len(Pre.background_window_fetcher.fifo) = 0

\* As amended: the fetcher may run a fetch cycle while its FIFO holds pixels,
\* but a fetched row waits in PushRow, and the FIFO is not added to, until
\* the FIFO is empty.
C17_PushWaitsForEmptyFifo ==
    (PpuTicked /\ Pre.ppu.state = "DrawingPixels"
       /\ Pre.background_window_fetcher.state = "PushRow"
       /\ Len(Pre.background_window_fetcher.fifo) > 0) =>
        /\ machine.background_window_fetcher.state = "PushRow"
        /\ Len(machine.background_window_fetcher.fifo)
             <= Len(Pre.background_window_fetcher.fifo)
        /\ machine.background_window_fetcher.tile_row_data
             = Pre.background_window_fetcher.tile_row_data

\* A fetched row waits for the last pixel of the previous one to leave.
C17_Witness ==
    /\ PpuTicked /\ Pre.ppu.state = "DrawingPixels"
    /\ Pre.background_window_fetcher.state = "PushRow"
    /\ Len(Pre.background_window_fetcher.fifo) = 1
    /\ machine.background_window_fetcher.state = "PushRow"
    /\ Len(machine.background_window_fetcher.fifo) = 0

----------------------------------------------------------------------------
(* C18: after the 144 visible scanlines the PPU stays in vertical blank for *)
(* 10 full scanlines (10 x 456 = 4560 dots, LY taking the values 144        *)
(* through 153) before LY wraps back to 0, so with the LCD on a whole frame *)
(* lasts 154 x 456 = 70224 dots.                                             *)

\* The PPU left vertical blank for the first scanline of the next frame.
FrameWrapped ==
    /\ last.kind \in {"tick", "ticks"} /\ ~machine.panicked
    /\ Pre.ppu.state = "VerticalBlank" /\ machine.ppu.state = "OAMScan"

C18_VBlankLastsTenScanlines ==
    /\ FrameWrapped =>
          /\ Pre.ppu.lcd_y_coord = 153
          /\ machine.ppu.lcd_y_coord = 0
          /\ steps % (154 * 456) = 0
    /\ machine.ppu.state = "VerticalBlank" =>
          machine.ppu.lcd_y_coord \in 144..153

----------------------------------------------------------------------------
(* C19: the STAT interrupt is edge-triggered: a PPU tick sets IF bit 1 only *)
(* when the STAT line was not asserted after the previous tick and is       *)
(* asserted after this one.  While a selected condition stays asserted, or  *)
(* when another selected condition (such as LY = LYC) becomes true while    *)
(* the line is already asserted, no new STAT request is raised.  The line   *)
(* after a tick is what the PPU remembers of it, last_stat_line.            *)

StatRequests == machine.ppu.obs_stat_requests - Pre.ppu.obs_stat_requests

C19_StatIsEdgeTriggered ==
    PpuTicked =>
        /\ StatRequests \in {0, 1}
        /\ StatRequests = 1 =>
              /\ is_bit_set(machine.interrupts.interrupt_flag,
                            STAT_INTERRUPT_BIT)
              /\ Pre.ppu.last_stat_line = 0
              /\ machine.ppu.last_stat_line # 0

----------------------------------------------------------------------------
(* C20: with LCDC bit 7 cleared, ticking the PPU any number of dots leaves  *)
(* LY, the STAT mode bits, the scanline dot counter, the PPU mode, both     *)
(* fetchers and both FIFOs unchanged and raises no VBlank or STAT interrupt *)
(* request.                                                                 *)

TickedWhileOff == last.kind = "tick" /\ ~is_lcd_ppu_on(Pre)

\* What a tick of the PPU can touch, apart from the count of calls.
PpuSide(m) ==
    [ppu |-> [m.ppu EXCEPT !.obs_dots = 0],
     background_window_fetcher |-> m.background_window_fetcher,
     object_fetcher |-> m.object_fetcher,
     pixel_fetcher |-> m.pixel_fetcher,
     interrupt_flag |-> m.interrupts.interrupt_flag,
     panicked |-> m.panicked]

C20_LcdOffTickChangesNothing ==
    TickedWhileOff =>
        /\ machine.ppu.obs_dots = Pre.ppu.obs_dots + 1
        /\ PpuSide(machine) = PpuSide(Pre)

\* The LCD was switched off in the middle of a scanline, with pixels waiting
\* in the background FIFO, and the PPU was then ticked MaxOffDots times.
C20_Witness ==
    /\ TickedWhileOff
    /\ last.off_dots = MaxOffDots
    /\ machine.ppu.state = "DrawingPixels"
    /\ machine.ppu.scanline_dots > 0
    /\ Len(machine.background_window_fetcher.fifo) > 0

----------------------------------------------------------------------------
(* The CPU running guest code from memory: each step decodes the bytes at   *)
(* PC (instructions/decode.rs) and executes the instruction through         *)
(* step_machine.  `program` is the code the guest was given, as             *)
(* [at, bytes]; `last` is the history of the step as in Spec.               *)

MaxCpuSteps == 3

\* The byte at `address` of the image the machine was given: the cartridge
\* for ROM addresses, what earlier guest code left in RAM and in IE
\* otherwise.
place(m, address, byte) ==
    IF address < 32768
    THEN [m EXCEPT !.game_rom_writes = (address :> byte) @@ @]
    ELSE IF address = 65535
    THEN [m EXCEPT !.interrupts.interrupt_enable = byte]
    ELSE store(m, address, byte)

RECURSIVE place_bytes(_, _, _)
place_bytes(m, address, bytes) ==
    IF bytes = << >> THEN m
    ELSE place_bytes(place(m, address, Head(bytes)), U16(address + 1),
                     Tail(bytes))

\* Where the code is: in the cartridge at the hand-off address of the boot
\* ROM, in work RAM, and at the top of the address space (high RAM and IE,
\* wrapping into the cartridge).
CodeAddresses == {256, 49152, 65533, 65535}

\* Guest code: every first byte followed by what memory holds, and
\* instructions with their operands, one each unless noted.
Programs ==
    {<<opcode>> : opcode \in 0..255} \cup
    {<<0>>, <<62, 5>>, <<6, 255>>, <<1, 52, 18>>, <<33, 0, 193>>,
     <<49, 240, 223>>, <<60>>, <<61>>, <<4>>, <<3>>, <<11>>, <<9>>, <<71>>,
     <<120>>, <<131>>, <<136>>, <<144>>, <<168>>, <<175>>, <<185>>,
     <<254, 16>>, <<198, 15>>, <<206, 255>>, <<214, 1>>, <<230, 15>>,
     <<238, 255>>,
     \* JR, JR cc
     <<24, 5>>, <<24, 251>>, <<32, 5>>, <<40, 5>>, <<48, 254>>, <<56, 127>>,
     \* JP, JP cc, JP HL
     <<195, 0, 193>>, <<194, 0, 193>>, <<202, 0, 193>>, <<210, 0, 193>>,
     <<218, 0, 193>>, <<233>>,
     \* CALL, CALL cc, RET, RET cc, RETI, RST
     <<205, 0, 193>>, <<196, 0, 193>>, <<204, 0, 193>>, <<201>>, <<192>>,
     <<200>>, <<208>>, <<216>>, <<217>>, <<199>>, <<239>>, <<255>>,
     \* BIT 7,H; BIT 7,B
     <<203, 124>>, <<203, 120>>,
     \* PUSH, POP
     <<197>>, <<245>>, <<193>>, <<241>>, <<225>>,
     <<243>>, <<251>>, <<234, 0, 193>>, <<250, 0, 193>>, <<2>>, <<249>>,
     \* PUSH BC; POP DE and PUSH AF; POP BC
     <<197, 209>>, <<245, 193>>,
     \* LD A,5; INC A; NOP
     <<62, 5, 60, 0>>}

\* The registers when the code is entered.
CpuRegisters ==
    {[af |-> a * 256 + f, bc |-> 49716, de |-> 241, hl |-> 49536,
      sp |-> sp, pc |-> 0] :
        a \in {15, 255}, f \in {0, 128, 16, 240}, sp \in {57328, 1}}

\* The two bytes on top of the stack when the code is entered.
StackBytes == <<15, 193>>

InitCpu ==
    /\ \E at \in CodeAddresses, bytes \in Programs, r \in CpuRegisters :
          /\ program = [at |-> at, bytes |-> bytes]
          /\ machine =
               place_bytes(
                   place_bytes(
                       [Machine_new(RomInformation("ROMOnly", "NoRAM", 2))
                        EXCEPT !.dmg_boot_rom = 1,
                               !.cpu.registers = [r EXCEPT !.pc = at]],
                       r.sp, StackBytes),
                   at, bytes)
    /\ last = NoOp
    /\ steps = 0
    /\ build = "debug"
    /\ app = ApplicationState_new({})

CanFetch ==
    /\ steps < MaxCpuSteps /\ ~machine.panicked
    /\ should_handle_interrupt(machine) = {}
    /\ ~machine.cpu.low_power_mode

\* A step whose fetch decodes an instruction.
StepFetch ==
    /\ CanFetch
    /\ ~decode_instruction_at_address(machine, machine.cpu.registers.pc).panicked
    /\ Apply("execute",
             decode_instruction_at_address(machine, machine.cpu.registers.pc)
                .instruction)

\* A step whose fetch panics in the decoder.
StepAbort ==
    /\ CanFetch
    /\ decode_instruction_at_address(machine, machine.cpu.registers.pc).panicked
    /\ machine' = panic(machine)
    /\ last' = [NoOp EXCEPT !.kind = "abort", !.pre = {machine}]
    /\ steps' = steps + 1
    /\ UNCHANGED <<build, program, app>>

NextCpu == StepFetch \/ StepAbort

SpecCpu == InitCpu /\ [][NextCpu]_vars

----------------------------------------------------------------------------
(* C21: PC is moved to A + s (mod 2^16), A the instruction's address and s   *)
(* its size, before the semantics run: an instruction that is no jump, and   *)
(* an untaken conditional jump, call or return, leave PC = A + s; a taken    *)
(* relative jump leaves PC = A + s + e for its signed offset e; a taken      *)
(* absolute jump, call or return leaves PC at its target, and a call pushes  *)
(* A + s as the return address.                                              *)

NextAddress == U16(Executed.address + Executed.instruction.instruction_size)

\* The jump, call or return the step executed was taken, judged on the flags
\* before the step.
JumpTaken ==
    \/ Executed.instruction.op \in {"JR_i8", "JP_u16", "JP_HL", "CALL_a16",
                                    "RET", "RETI", "RST"}
    \/ /\ Executed.instruction.op \in {"JR_cc_i8", "JP_cc_u16", "CALL_cc_u16",
                                       "RET_cc"}
       /\ holds(Executed.instruction.x, Pre.cpu.registers)

\* The two bytes on top of the stack before the step, as an address.
ReturnAddress ==
    as_u16(read_u8(Pre, Pre.cpu.registers.sp).value,
           read_u8(Pre, U16(Pre.cpu.registers.sp + 1)).value)

PushedNextAddress ==
    /\ Len(machine.obs_writes) >= 2
    /\ machine.obs_writes[1] =
           <<U16(Pre.cpu.registers.sp + 65535), NextAddress \div 256>>
    /\ machine.obs_writes[2] =
           <<U16(Pre.cpu.registers.sp + 65534), NextAddress % 256>>

C21_PcAdvancesBeforeSemantics ==
    (last.kind = "execute" /\ ~machine.panicked) =>
        /\ Executed.address = Pre.cpu.registers.pc
        /\ machine.cpu.registers.pc =
             (CASE ~JumpTaken -> NextAddress
                [] Executed.instruction.op \in {"JR_i8", "JR_cc_i8"}
                     /\ JumpTaken ->
                     U16(65536 + NextAddress + Executed.instruction.imm)
                [] Executed.instruction.op \in {"JP_u16", "JP_cc_u16",
                                                "CALL_a16", "CALL_cc_u16",
                                                "RST"}
                     /\ JumpTaken -> Executed.instruction.imm
                [] Executed.instruction.op = "JP_HL" -> Pre.cpu.registers.hl
                [] Executed.instruction.op \in {"RET", "RET_cc", "RETI"}
                     /\ JumpTaken -> ReturnAddress)
        /\ (Executed.instruction.op \in {"CALL_a16", "CALL_cc_u16", "RST"}
              /\ JumpTaken) => PushedNextAddress

\* A taken relative jump fetched at 0xFFFD, whose target wraps to 0x0004.
C21_Witness ==
    /\ last.kind = "execute" /\ ~machine.panicked
    /\ ExecutedOp("JR_i8") /\ Executed.address = 65533
    /\ machine.cpu.registers.pc = 4

----------------------------------------------------------------------------
(* The decoder on its own: every first byte, at addresses in the cartridge, *)
(* in work RAM and at the top of the address space.  `last.executed` holds  *)
(* the DecodedInstruction returned.                                         *)

MaxDecodes == 1

DecodeAddresses == {256, 49152, 65533, 65534, 65535}

\* The byte after the opcode: BIT 7,H after 0xCB, and a 0xCB opcode without
\* an arm.
SecondBytes == {124, 255}

InitDecode ==
    /\ \E at \in DecodeAddresses, opcode \in 0..255, second \in SecondBytes :
          /\ program = [at |-> at, bytes |-> <<opcode, second>>]
          /\ machine =
               place_bytes(
                   [Machine_new(RomInformation("ROMOnly", "NoRAM", 2))
                    EXCEPT !.dmg_boot_rom = 1, !.cpu.registers.pc = at],
                   at, <<opcode, second>>)
    /\ last = NoOp
    /\ steps = 0
    /\ build = "debug"
    /\ app = ApplicationState_new({})

\* decode_instruction_at_address(machine, machine.cpu.registers.pc)
Decode ==
    /\ steps < MaxDecodes /\ ~machine.panicked
    /\ machine' =
         IF decode_instruction_at_address(machine,
                                          machine.cpu.registers.pc).panicked
         THEN panic(machine) ELSE machine
    /\ last' = [NoOp EXCEPT
                  !.kind = "decode", !.pre = {machine},
                  !.executed = {decode_instruction_at_address(
                                    machine, machine.cpu.registers.pc)}]
    /\ steps' = steps + 1
    /\ UNCHANGED <<build, program, app>>

SpecDecode == InitDecode /\ [][Decode]_vars

----------------------------------------------------------------------------
(* C22: for every opcode the decoder implements and every address, the top  *)
(* of the address space (0xFFFE, 0xFFFF) included, the decoded instruction  *)
(* has a size of 1, 2 or 3, and its raw byte slice is exactly that long.    *)

C22_RawSliceHasDeclaredSize ==
    (last.kind = "decode" /\ ~machine.panicked) =>
        /\ Executed.instruction_size \in 1..3
        /\ Len(Executed.raw) = Executed.instruction_size

\* Away from the top of the address space the slice is as long as the size.
C22_RawSliceBelowTop ==
    (last.kind = "decode" /\ ~machine.panicked
       /\ Executed.address + Executed.instruction_size <= 65535) =>
        /\ Executed.instruction_size \in 1..3
        /\ Len(Executed.raw) = Executed.instruction_size

\* NOP decoded at 0xFFFF: one byte long, with an empty slice.
C22_EmptySliceAtTop ==
    /\ last.kind = "decode" /\ ~machine.panicked
    /\ Executed.address = 65535 /\ Executed.instruction.op = "NOP"
    /\ Executed.instruction_size = 1 /\ Executed.raw = << >>

----------------------------------------------------------------------------
(* C23: the lower nibble of F is zero in every reachable state: the flag     *)
(* helpers write bits 7..4 only, POP AF masks the popped value with 0xFFF0,  *)
(* and no 8-bit or 16-bit register load has F or AF as its destination.      *)

C23_FlagLowNibbleIsZero == read_f(machine.cpu.registers) % 16 = 0

\* POP AF of a stack byte whose lower nibble is not zero.
C23_Witness ==
    /\ last.kind = "execute" /\ ~machine.panicked
    /\ ExecutedOp("POP_r16") /\ Executed.instruction.x = "AF"
    /\ read_u8(Pre, Pre.cpu.registers.sp).value % 16 # 0

----------------------------------------------------------------------------
(* The 8-bit adder: ADD, ADC, SUB and SBC executed on accumulator values,   *)
(* operands and carries drawn from the corner cases of both nibbles.        *)

MaxAluOps == 1

AluValues == {0, 1, 15, 16, 127, 128, 240, 255}

InitAlu ==
    /\ \E a \in AluValues, f \in {0, 16, 240} :
          machine = [Machine_new(RomInformation("ROMOnly", "NoRAM", 2))
                     EXCEPT !.dmg_boot_rom = 1,
                            !.cpu.registers.af = a * 256 + f,
                            !.cpu.registers.pc = 49152]
    /\ last = NoOp
    /\ steps = 0
    /\ build = "debug"
    /\ program = {}
    /\ app = ApplicationState_new({})

\* Instruction::execute of `ins`.
ExecuteAlu(ins) ==
    /\ machine' = execute(ins, machine).m
    /\ last' = [NoOp EXCEPT
                  !.kind = "alu", !.pre = {machine},
                  !.t_cycles = execute(ins, machine).t_cycles,
                  !.executed = {[address |-> machine.cpu.registers.pc,
                                 instruction |-> ins]}]
    /\ steps' = steps + 1
    /\ UNCHANGED <<build, program, app>>

ExecuteAdd ==
    /\ steps < MaxAluOps
    /\ \E b \in AluValues, op \in {"ADD_A_u8", "ADC_A_u8"} :
          ExecuteAlu(Instruction(op, "", "", b, 2))

ExecuteSub ==
    /\ steps < MaxAluOps
    /\ \E b \in AluValues, op \in {"SUB_A_u8", "SBC_A_u8"} :
          ExecuteAlu(Instruction(op, "", "", b, 2))

\* SUB A,A
ExecuteSubA ==
    /\ steps < MaxAluOps
    /\ ExecuteAlu(Instruction("SUB_A_r8", "A", "", 0, 1))

NextAlu == ExecuteAdd \/ ExecuteSub \/ ExecuteSubA

SpecAlu == InitAlu /\ [][NextAlu]_vars

----------------------------------------------------------------------------
(* C24: for accumulator a, operand b and carry-in c, ADD/ADC give            *)
(* (a+b+c) mod 256 with Z iff the result is 0, N=0, H iff                    *)
(* (a & 0xF)+(b & 0xF)+c > 0xF and C iff a+b+c > 0xFF; SUB/SBC give          *)
(* (a-b-c) mod 256 with Z iff the result is 0, N=1, H iff                    *)
(* (a & 0xF) < (b & 0xF)+c and C iff a < b+c.  ADD A,0x0F with A=0x01 gives  *)
(* A=0x10, Z=0, N=0, H=1, C=0, and SUB A,A gives A=0, Z=1, N=1, H=0, C=0.    *)

AluA == read_a(Pre.cpu.registers)

AluB ==
    IF Executed.instruction.op = "SUB_A_r8"
    THEN read_r8(Pre.cpu.registers, Executed.instruction.x)
    ELSE Executed.instruction.imm

AluC ==
    IF Executed.instruction.op \in {"ADC_A_u8", "SBC_A_u8"}
         /\ read_flag(Pre.cpu.registers, "C")
    THEN 1 ELSE 0

\* The flags Z, N, H, C of the machine are z, n, h, c.
FlagsAre(z, n, h, c) ==
    /\ read_flag(machine.cpu.registers, "Z") = z
    /\ read_flag(machine.cpu.registers, "N") = n
    /\ read_flag(machine.cpu.registers, "H") = h
    /\ read_flag(machine.cpu.registers, "C") = c

C24_AdderResultAndFlags ==
    (last.kind = "alu") =>
        /\ Executed.instruction.op \in {"ADD_A_u8", "ADC_A_u8"} =>
             /\ read_a(machine.cpu.registers) = (AluA + AluB + AluC) % 256
             /\ FlagsAre((AluA + AluB + AluC) % 256 = 0, FALSE,
                         (AluA % 16) + (AluB % 16) + AluC > 15,
                         AluA + AluB + AluC > 255)
        /\ Executed.instruction.op \in {"SUB_A_u8", "SBC_A_u8", "SUB_A_r8"} =>
             /\ read_a(machine.cpu.registers) =
                    (512 + AluA - AluB - AluC) % 256
             /\ FlagsAre((512 + AluA - AluB - AluC) % 256 = 0, TRUE,
                         AluA % 16 < (AluB % 16) + AluC,
                         AluA < AluB + AluC)
        /\ (Executed.instruction.op = "ADD_A_u8" /\ AluA = 1 /\ AluB = 15) =>
             /\ read_a(machine.cpu.registers) = 16
             /\ FlagsAre(FALSE, FALSE, TRUE, FALSE)
        /\ Executed.instruction.op = "SUB_A_r8" =>
             /\ read_a(machine.cpu.registers) = 0
             /\ FlagsAre(TRUE, TRUE, FALSE, FALSE)

\* ADC of 0x0F and 0xF0 with the carry set: the result is 0, and both the
\* half carry and the carry come from the carry-in alone.
C24_Witness ==
    /\ last.kind = "alu" /\ Executed.instruction.op = "ADC_A_u8"
    /\ AluA = 15 /\ AluB = 240 /\ AluC = 1
    /\ read_a(machine.cpu.registers) = 0

----------------------------------------------------------------------------
(* C25: the program [0x3E,0x05,0x3C,0x00] (LD A,5; INC A; NOP) loaded at     *)
(* the address the boot ROM hands off to, 0x0100, and run for 3 steps,       *)
(* yields A=0x06, Z=0, PC advanced by 3 bytes from the start address, and    *)
(* 8+4+4 = 16 elapsed t-cycles.                                              *)

RanLoadIncNop ==
    /\ program = [at |-> 256, bytes |-> <<62, 5, 60, 0>>]
    /\ steps = 3 /\ ~machine.panicked

C25_LoadIncNopAdvancesThree ==
    RanLoadIncNop =>
        /\ read_a(machine.cpu.registers) = 6
        /\ ~read_flag(machine.cpu.registers, "Z")
        /\ machine.cpu.registers.pc = program.at + 3
        /\ machine.t_cycle_count = 16

\* The same with PC advanced by the 4 bytes of the three instructions.
C25_LoadIncNopAdvancesFour ==
    RanLoadIncNop =>
        /\ read_a(machine.cpu.registers) = 6
        /\ ~read_flag(machine.cpu.registers, "Z")
        /\ machine.cpu.registers.pc = program.at + 4
        /\ machine.t_cycle_count = 16

C25_Witness ==
    /\ RanLoadIncNop
    /\ ExecutedOp("NOP") /\ Executed.address = 259
    /\ last.before # {}

----------------------------------------------------------------------------
(* The driver: ApplicationState::update and execute_one_instruction          *)
(* (application_state.rs:172-305).  A message is handled to its end before   *)
(* the next one is received; the calls of step_machine inside a handler are  *)
(* the steps of the model.                                                   *)

MaxDriverOps == 5

\* let mut remaining_steps = Saturating(69_905)
FRAME_T_CYCLES == 69905

\* The guest program around HALT.
DriverProgram ==
    {Ins("NOP", 0), Ins("HALT", 0), Ins("EI", 0), Ins("LD_mu16_A", IE_ADDRESS)}

\* Saturating<u32> subtraction
saturating_sub(a, b) == IF b > a THEN 0 ELSE a - b

\* MachineStep.instruction_executed (application_state.rs:142-146): None when
\* handle_interrupts returned cycles, whatever the handler executed.
instruction_executed(r) == IF r.interrupt = {} THEN r.executed ELSE {}

\* The entry of execute_one_instruction for the message `message`.
enter_execute_one_instruction(a, message) ==
    [a EXCEPT !.at = "execute_one_instruction", !.message = message,
              !.total_t_cycles = 0]

\* The handler returns: Task::none() or Task::done(ContinueRunUntilBreakpoint).
return_task(a, queued) == [a EXCEPT !.at = "update", !.queued = queued]

\* The test of the while loop of ContinueRunUntilBreakpoint and what follows
\* it (application_state.rs:275-303); `pc` is the machine's PC.
run_loop(a, pc) ==
    IF a.remaining_steps > 0 /\ ~a.paused /\ pc \notin a.breakpoints
    THEN enter_execute_one_instruction([a EXCEPT !.checked = TRUE],
                                       "ContinueRunUntilBreakpoint")
    ELSE return_task([a EXCEPT !.checked = TRUE], a.remaining_steps = 0)

\* execute_one_instruction returns an InstructionStep to the handler.
returned_instruction_step(a, pc) ==
    CASE a.message = "RunNextInstruction" -> return_task(a, a.queued)
      [] a.message = "BeginRunUntilBreakpoint" -> return_task(a, TRUE)
      [] a.message = "ContinueRunUntilBreakpoint" ->
           run_loop([a EXCEPT !.remaining_steps =
                                  saturating_sub(@, a.total_t_cycles)], pc)

\* One turn of the loop of execute_one_instruction (application_state.rs:
\* 188-201): `r` is what step_machine did.
loop_turn(a, r) ==
    IF instruction_executed(r) = {}
    THEN [a EXCEPT !.total_t_cycles = @ + r.t_cycles,
                   !.machine_steps = @ + 1, !.checked = FALSE]
    ELSE returned_instruction_step(
             [a EXCEPT !.total_t_cycles = @ + r.t_cycles,
                       !.machine_steps = @ + 1, !.instructions = @ + 1,
                       !.checked = FALSE],
             r.m.cpu.registers.pc)

\* A message is received.
received(a) == [a EXCEPT !.machine_steps = 0, !.instructions = 0]

\* A wrong BeginRunUntilBreakpoint: it hands over to the run loop at once.
begin_run_until_breakpoint_without_step(a) ==
    return_task([received(a) EXCEPT !.paused = FALSE,
                                    !.message = "BeginRunUntilBreakpoint"],
                TRUE)

\* application_state.rs:263-268
begin_run_until_breakpoint(a) ==
    enter_execute_one_instruction([received(a) EXCEPT !.paused = FALSE],
                                  "BeginRunUntilBreakpoint")

\* The driver some way into a session: between two messages, with or
\* without Pause requested and a breakpoint at PC, or inside the run loop
\* near the end of a frame; the guest halted or not.
InitDriver ==
    /\ machine \in
         {[Machine_new(MBC1Rom(4)) EXCEPT
             !.dmg_boot_rom = 1,
             !.cpu.low_power_mode = halted,
             !.cpu.registers = [Registers_new EXCEPT
                                   !.af = 1024, !.sp = 65534, !.pc = 336],
             !.interrupts = [interrupt_master_enable |-> ime,
                             interrupt_master_enable_delayed |-> FALSE,
                             interrupt_enable |-> ie,
                             interrupt_flag |-> 4]] :
            halted \in BOOLEAN, ime \in BOOLEAN, ie \in {0, 4}}
    /\ app \in
         {[ApplicationState_new(breakpoints) EXCEPT
             !.paused = paused, !.queued = queued] :
            breakpoints \in {{}, {336}, {337}}, paused \in BOOLEAN,
            queued \in BOOLEAN}
         \cup
         {enter_execute_one_instruction(
              [ApplicationState_new({337}) EXCEPT
                 !.remaining_steps = remaining_steps, !.checked = TRUE],
              "ContinueRunUntilBreakpoint") :
            remaining_steps \in {5, FRAME_T_CYCLES}}
    /\ last = NoOp
    /\ steps = 0
    /\ build = "debug"
    /\ program = DriverProgram

CanReceive == steps < MaxDriverOps /\ ~machine.panicked /\ app.at = "update"

Received(message, a) ==
    /\ app' = a
    /\ last' = [NoOp EXCEPT !.kind = message, !.pre = {machine}]
    /\ steps' = steps + 1
    /\ UNCHANGED <<machine, build, program>>

\* Message::Pause
Pause ==
    /\ CanReceive
    /\ Received("Pause", [received(app) EXCEPT !.paused = TRUE,
                                               !.message = "Pause"])

\* Message::RunNextInstruction
RunNextInstruction ==
    /\ CanReceive
    /\ Received("RunNextInstruction",
                enter_execute_one_instruction(received(app),
                                              "RunNextInstruction"))

\* Message::BeginRunUntilBreakpoint
BeginRunUntilBreakpoint ==
    /\ CanReceive
    /\ Received("BeginRunUntilBreakpoint", begin_run_until_breakpoint(app))

\* Message::ContinueRunUntilBreakpoint, sent by a handler.
ContinueRunUntilBreakpoint ==
    /\ CanReceive /\ app.queued
    /\ Received("ContinueRunUntilBreakpoint",
                run_loop([received(app) EXCEPT
                            !.queued = FALSE,
                            !.message = "ContinueRunUntilBreakpoint",
                            !.remaining_steps = FRAME_T_CYCLES],
                         machine.cpu.registers.pc))

\* A call of step_machine in the loop of execute_one_instruction, and the
\* return to the handler when an instruction was executed.
DriverStep ==
    /\ steps < MaxDriverOps /\ ~machine.panicked
    /\ app.at = "execute_one_instruction"
    /\ \E ins \in (IF stays_in_low_power(machine)
                      /\ should_handle_interrupt(machine) = {}
                   THEN {Ins("NOP", 0)} ELSE program) :
          /\ machine' = step_machine(machine, ins, build).m
          /\ last' = [kind |-> "step", pre |-> {machine},
                      t_cycles |-> step_machine(machine, ins, build).t_cycles,
                      executed |-> instruction_executed(
                                       step_machine(machine, ins, build)),
                      interrupt |-> step_machine(machine, ins, build).interrupt,
                      acked |-> step_machine(machine, ins, build).acked,
                      before |-> last.executed]
          /\ app' = loop_turn(app, step_machine(machine, ins, build))
    /\ steps' = steps + 1
    /\ UNCHANGED <<build, program>>

NextDriver ==
    \/ Pause \/ RunNextInstruction \/ BeginRunUntilBreakpoint
    \/ ContinueRunUntilBreakpoint \/ DriverStep

SpecDriver == InitDriver /\ [][NextDriver]_vars

----------------------------------------------------------------------------
(* C26: the run-until-breakpoint driver reads the pause flag and the         *)
(* breakpoint set again after every call of step_machine, low-power filler   *)
(* steps and interrupt-dispatch steps included, so that every driver command *)
(* returns after a bounded number of machine steps, even when the CPU is     *)
(* halted and no interrupt ever becomes pending.                             *)

C26_ChecksAfterEveryMachineStep ==
    (last.kind = "step" /\ ~machine.panicked
       /\ app.message = "ContinueRunUntilBreakpoint") => app.checked

\* The guest is halted with no interrupt enabled and the driver is inside
\* execute_one_instruction.
HaltedInsideCommand ==
    /\ app.at = "execute_one_instruction" /\ ~machine.panicked
    /\ machine.cpu.low_power_mode
    /\ machine.interrupts.interrupt_enable = 0

\* Halted with nothing enabled, the loop of execute_one_instruction is never
\* left: no command returns.
C26_HaltedCommandNeverReturns == [][HaltedInsideCommand => HaltedInsideCommand']_vars

\* A low-power filler step inside the run loop, after which the driver calls
\* step_machine again without having read the pause flag or the breakpoints.
C26_FillerStepInsideRunLoop ==
    /\ last.kind = "step" /\ ~machine.panicked
    /\ app.message = "ContinueRunUntilBreakpoint"
    /\ last.t_cycles = 4 /\ last.executed = {}
    /\ machine.cpu.low_power_mode /\ ~app.checked
    /\ app.at = "execute_one_instruction"

----------------------------------------------------------------------------
(* C27: BeginRunUntilBreakpoint executes at least one instruction before     *)
(* the pause flag or the breakpoint set is honoured: when it hands over to   *)
(* the run loop the machine has executed an instruction, even when PC was a  *)
(* breakpoint or Pause had been requested before the command.                *)

BeginReturned ==
    app.message = "BeginRunUntilBreakpoint" /\ app.at = "update"

C27_BeginStepsAtLeastOnce ==
    /\ BeginReturned =>
         /\ app.instructions >= 1 /\ app.machine_steps >= 1
         /\ last.kind = "step" /\ last.executed # {}
         /\ app.queued /\ ~app.paused
    /\ last.kind = "BeginRunUntilBreakpoint" =>
         app.at = "execute_one_instruction" /\ ~app.paused

\* Begin has returned with a breakpoint set at the PC the session started
\* from, after more than one call of step_machine.
C27_Witness ==
    /\ BeginReturned /\ ~machine.panicked
    /\ app.breakpoints = {336}
    /\ app.machine_steps >= 2

----------------------------------------------------------------------------
(* C28: a step taken in low-power mode with no interrupt pending             *)
(* (IE & IF & 0x1F = 0) fetches nothing: PC, SP, all registers, IME and      *)
(* memory are left as they were, the CPU stays in low-power mode, and the    *)
(* step costs exactly 4 t-cycles, ticked into both the Timer and the PPU.    *)

\* The step was taken in low-power mode with nothing pending.
SteppedInLowPower ==
    /\ Stepped
    /\ Pre.cpu.low_power_mode
    /\ And8(And8(Pre.interrupts.interrupt_enable,
                 Pre.interrupts.interrupt_flag), 31) = 0

C28_LowPowerStepIsFourIdleCycles ==
    SteppedInLowPower =>
        /\ last.executed = {} /\ last.interrupt = {}
        /\ machine.cpu = Pre.cpu
        /\ machine.interrupts.interrupt_master_enable =
               Pre.interrupts.interrupt_master_enable
        /\ machine.interrupts.interrupt_enable =
               Pre.interrupts.interrupt_enable
        /\ machine.obs_writes = << >>
        /\ machine.mem = Pre.mem
        /\ machine.game_rom_writes = Pre.game_rom_writes
        /\ last.t_cycles = 4
        /\ machine.t_cycle_count = Pre.t_cycle_count + 4
        /\ machine.timers.obs_dots = Pre.timers.obs_dots + 4
        /\ machine.ppu.obs_dots = Pre.ppu.obs_dots + 4

\* A low-power step with IME set and an interrupt flagged but not enabled.
C28_Witness ==
    /\ SteppedInLowPower
    /\ Pre.interrupts.interrupt_master_enable
    /\ Pre.interrupts.interrupt_flag # 0
    /\ machine.cpu.low_power_mode

----------------------------------------------------------------------------
(* C29: pushing a 16-bit value decrements SP by two in total (mod 2^16) and  *)
(* stores the high byte at old SP-1 and the low byte at old SP-2; a pop      *)
(* right after a push into writable RAM returns the pushed value and         *)
(* restores SP to its value before the push.                                 *)

\* The step executed PUSH r16, or a call that was taken.
PushedOnStack ==
    /\ last.kind = "execute" /\ ~machine.panicked
    /\ \/ ExecutedOp("PUSH_r16")
       \/ /\ Executed.instruction.op \in {"CALL_a16", "CALL_cc_u16", "RST"}
          /\ JumpTaken

\* The value PUSH r16 pushes: of F only the flag bits.
PushedRegister(r, r16) ==
    IF r16 = "AF" THEN read_a(r) * 256 + (read_f(r) - (read_f(r) % 16))
    ELSE read_r16(r, r16)

PushedValue ==
    IF ExecutedOp("PUSH_r16")
    THEN PushedRegister(Pre.cpu.registers, Executed.instruction.x)
    ELSE NextAddress

\* Work RAM and high RAM.
WritableRam == (49152..57343) \cup (65408..65534)

\* The step executed POP r16 right after a PUSH of the same program.
PoppedAfterPush ==
    /\ last.kind = "execute" /\ ~machine.panicked
    /\ ExecutedOp("POP_r16") /\ Executed.instruction.x # "AF"
    /\ \E push \in last.before :
          /\ push.instruction.op = "PUSH_r16"
          /\ Executed.address = U16(push.address + 1)
    /\ Pre.cpu.registers.sp \in WritableRam
    /\ U16(Pre.cpu.registers.sp + 1) \in WritableRam

C29_WitnessWrap ==
    /\ PushedOnStack /\ Pre.cpu.registers.sp = 1
    /\ machine.cpu.registers.sp = 65535

----------------------------------------------------------------------------
(* The scanline under guest writes.  The LCD is on from dot 0 with object   *)
(* attribute memory empty or holding eleven objects on the first rows; at   *)
(* a few dots the guest writes one of the registers or memories the PPU     *)
(* reads, or switches the LCD off, feeds the PPU a few dots and switches it *)
(* on again.  `steps` counts the dots fed to the PPU.                        *)

MaxScanDots == 920

SCY_ADDRESS == 65346
SCX_ADDRESS == 65347

\* The dots of the first scanline at which the guest writes: during the OAM
\* scan and during pixel transfer.
ScanWriteDots == {40, 200}

\* The writes of the guest: the scroll registers, LCDC with the other tile
\* map, with the signed tile addressing and with the LCD off, the first
\* entry of the tile map, a row of tile 0, the first object of OAM moved
\* onto and off the first rows, and the third object moved off them.
ScanWrites ==
    {[address |-> SCX_ADDRESS, value |-> 7],
     [address |-> SCY_ADDRESS, value |-> 255],
     [address |-> LCDC_ADDRESS, value |-> 153],
     [address |-> LCDC_ADDRESS, value |-> 131],
     [address |-> LCDC_ADDRESS, value |-> 17],
     [address |-> VRAM_ADDRESS + 6144, value |-> 128],
     [address |-> VRAM_ADDRESS, value |-> 255],
     [address |-> OAM_ADDRESS, value |-> 16],
     [address |-> OAM_ADDRESS, value |-> 200],
     [address |-> OAM_ADDRESS + 8, value |-> 200]}

\* Object `index` of the OAM image: on rows 0..7, eight pixels further right
\* than the one before it, tile 1, palette 1.
RECURSIVE write_objects(_, _)
write_objects(m, index) ==
    IF index = 0 THEN m
    ELSE write_u8(write_u8(write_u8(write_u8(write_objects(m, index - 1),
             OAM_ADDRESS + 4 * (index - 1), 16),
             OAM_ADDRESS + 4 * (index - 1) + 1, 8 * index),
             OAM_ADDRESS + 4 * (index - 1) + 2, 1),
             OAM_ADDRESS + 4 * (index - 1) + 3, 16)

\* The guest sets the three palettes: BGP = OBP0 = 0xE4, OBP1 = 0x1B.
set_palettes(m) ==
    write_u8(write_u8(write_u8(m, BGP_ADDRESS, 228), OBP0_ADDRESS, 228),
             OBP1_ADDRESS, 27)

ObjectCounts == {0, 11}

InitScan ==
    /\ machine \in
         {[write_u8(write_u8(write_objects(
               set_palettes(Machine_new(RomInformation("ROMOnly", "NoRAM", 2))),
               objects),
               VRAM_ADDRESS + 16, 255), LCDC_ADDRESS, 147)
           EXCEPT !.obs_writes = << >>] : objects \in ObjectCounts}
    /\ last = [kind |-> "init", pre |-> {}, off_dots |-> 0]
    /\ steps = 0
    /\ build = "debug"
    /\ program = {}
    /\ app = ApplicationState_new({})

\* One dot.
ScanTick ==
    /\ steps < MaxScanDots /\ ~machine.panicked
    /\ is_lcd_ppu_on(machine) \/ last.off_dots < MaxOffDots
    /\ PpuOp("tick", PPU_tick(machine), 1,
             IF is_lcd_ppu_on(machine) THEN 0 ELSE last.off_dots + 1)

\* One write of the guest between two dots.
ScanWrite ==
    /\ steps \in ScanWriteDots /\ ~machine.panicked
    /\ last.kind = "tick" /\ is_lcd_ppu_on(machine)
    /\ \E w \in ScanWrites :
          PpuOp("write", write_u8([machine EXCEPT !.obs_writes = << >>],
                                  w.address, w.value), 0, 0)

\* The guest switches the LCD on again: LCDC = 0x93.
GuestLcdOn ==
    /\ ~is_lcd_ppu_on(machine) /\ ~machine.panicked
    /\ last.kind = "tick"
    /\ PpuOp("write", write_u8([machine EXCEPT !.obs_writes = << >>],
                               LCDC_ADDRESS, 147), 0, last.off_dots)

NextScan == ScanTick \/ ScanWrite \/ GuestLcdOn

SpecScan == InitScan /\ [][NextScan]_vars

----------------------------------------------------------------------------
(* C30: while the LCD is enabled every scanline lasts exactly 456 dots: the *)
(* OAM scan ends on dot 80, pixel transfer outputs its 160th pixel and      *)
(* enters horizontal blank before dot 456, LY changes only on dot 456, and  *)
(* the scanline dot counter never exceeds 456, so the abort "Frame did not  *)
(* finish rendering in time" is unreachable whatever the guest writes to    *)
(* VRAM, OAM, the scroll registers or LCDC, switching the LCD off and on    *)
(* again in mid-scanline included.                                           *)

\* The dot that was just counted, 456 for the dot that ended the scanline.
CountedDot == Pre.ppu.scanline_dots + 1

GuestWrote == last.kind = "write"

C30_ScanlineLasts456Dots ==
    /\ ~machine.panicked
    /\ machine.ppu.scanline_dots \in 0..455
    /\ machine.ppu.state = "OAMScan" => machine.ppu.scanline_dots < 80
    /\ machine.ppu.state = "DrawingPixels" =>
          /\ machine.ppu.scanline_dots \in 80..455
          /\ machine.ppu.drawn_pixels_on_current_row < 160
    /\ PpuTicked =>
          /\ CountedDot = 80 => Pre.ppu.state \in {"OAMScan", "VerticalBlank"}
          /\ Pre.ppu.state = "OAMScan" =>
                /\ machine.ppu.state \in {"OAMScan", "DrawingPixels"}
                /\ machine.ppu.state = "DrawingPixels" <=> CountedDot = 80
          /\ CountedDot = 456 =>
                /\ Pre.ppu.state \in {"HorizontalBlank", "VerticalBlank"}
                /\ machine.ppu.scanline_dots = 0
                /\ read_ly(machine.ppu) \in {read_ly(Pre.ppu) + 1, 0}
          /\ CountedDot # 456 =>
                /\ machine.ppu.scanline_dots = CountedDot
                /\ read_ly(machine.ppu) = read_ly(Pre.ppu)
          /\ Pre.ppu.state = "DrawingPixels" /\ machine.ppu.state # "DrawingPixels"
                => machine.ppu.state = "HorizontalBlank" /\ CountedDot < 456
    /\ (last.kind = "tick" /\ ~is_lcd_ppu_on(Pre)) \/ GuestWrote =>
          /\ machine.ppu.scanline_dots = Pre.ppu.scanline_dots
          /\ read_ly(machine.ppu) = read_ly(Pre.ppu)
          /\ machine.ppu.state = Pre.ppu.state

\* The first scanline ended on its 456th counted dot although the guest had
\* switched the LCD off and on again inside it, with ten objects selected.
C30_Witness ==
    /\ PpuTicked /\ CountedDot = 456 /\ steps > 456
    /\ read_ly(machine.ppu) = 1
    /\ Len(machine.object_fetcher.selected_objects) = 10

\* A scanline that the guest wrote the scroll register into reached
\* horizontal blank.
C30_WitnessWrite ==
    /\ PpuTicked /\ machine.ppu.state = "HorizontalBlank"
    /\ Pre.ppu.state = "DrawingPixels"
    /\ machine.ppu.scy = 255

----------------------------------------------------------------------------
(* C31: the PPU requests the VBlank interrupt (IF bit 0) exactly on the     *)
(* tick in which LY crosses from 143 to 144, once per frame, and on no      *)
(* other tick.                                                               *)

\* The PPU was fed dots, one or many in one call.
PpuStepped == last.kind \in {"tick", "ticks"} /\ ~machine.panicked

VBlankRequests ==
    machine.ppu.obs_vblank_requests - Pre.ppu.obs_vblank_requests

CrossedInto144 == Pre.ppu.lcd_y_coord = 143 /\ machine.ppu.lcd_y_coord = 144

C31_VBlankRequestedOnCrossingInto144 ==
    /\ PpuStepped =>
          /\ VBlankRequests = (IF CrossedInto144 THEN 1 ELSE 0)
          /\ CrossedInto144 =>
                /\ is_bit_set(machine.interrupts.interrupt_flag,
                              VBLANK_INTERRUPT_BIT)
                /\ machine.ppu.state = "VerticalBlank"
    /\ last.kind = "lcdc" => VBlankRequests = 0
    /\ machine.ppu.obs_vblank_requests =
          (IF machine.ppu.lcd_y_coord >= 144 \/ steps > 65664 + MaxOffDots
           THEN 1 ELSE 0)

\* The single-dot tick that ended scanline 143 made the request.
C31_Witness ==
    /\ last.kind = "tick" /\ CrossedInto144
    /\ VBlankRequests = 1 /\ Pre.ppu.scanline_dots = 455

\* The next frame has begun and the frame before it made one request.
C31_WitnessNextFrame ==
    /\ PpuStepped /\ Pre.ppu.lcd_y_coord = 152
    /\ machine.ppu.lcd_y_coord = 0
    /\ machine.ppu.obs_vblank_requests = 1

----------------------------------------------------------------------------
(* C32: every time LY changes, on each per-scanline increment and on the    *)
(* wrap back to 0 at the start of a frame, the LYC-equal check runs:        *)
(* afterwards the LYC-equal status bit (STAT bit 2) equals (LY = LYC), and  *)
(* the check raises STAT only when LY = LYC and the LYC interrupt-select    *)
(* bit (STAT bit 6) is set.                                                  *)

LyChanged == PpuTicked /\ machine.ppu.lcd_y_coord # Pre.ppu.lcd_y_coord

LyEqualsLyc == machine.ppu.lcd_y_coord = machine.ppu.lcd_y_compare

\* The requests of the end-of-tick edge detector in the tick just made.
EdgeRequests ==
    IF Pre.ppu.last_stat_line = 0 /\ machine.ppu.last_stat_line # 0
    THEN 1 ELSE 0

LycCheckHolds ==
    /\ is_bit_set(machine.ppu.lcd_status, LYC_EQUALS_LY_BIT) <=> LyEqualsLyc
    /\ StatRequests - EdgeRequests =
          (IF LyEqualsLyc /\ is_bit_set(machine.ppu.lcd_status,
                                        LYC_EQUALS_LY_INTERRUPT_SELECT_BIT)
           THEN 1 ELSE 0)

C32_LycCheckOnEveryLyChange == LyChanged => LycCheckHolds

\* The check as it runs on the increments that do not restart the frame.
C32_LycCheckOnIncrement ==
    LyChanged /\ Pre.ppu.lcd_y_coord # 152 => LycCheckHolds

\* The frame restarted with LYC = 0: LY is 0 and STAT bit 2 is clear.
C32_WrapSkipsTheCheck ==
    /\ LyChanged /\ Pre.ppu.lcd_y_coord = 152
    /\ machine.ppu.lcd_y_coord = 0 /\ machine.ppu.lcd_y_compare = 0
    /\ ~is_bit_set(machine.ppu.lcd_status, LYC_EQUALS_LY_BIT)

----------------------------------------------------------------------------
(* C33: after a step in which an interrupt was dispatched, IME is false     *)
(* unless the first handler instruction executed in that step was RETI; in  *)
(* particular an EI executed immediately before the dispatch (while IME was *)
(* already set) does not turn IME back on during the handler's first        *)
(* instruction.                                                              *)

Dispatched == last.kind = "dispatch" /\ ~machine.panicked

\* The instruction executed in the step before the one just made.
StepBeforeRan(op) == \E e \in last.before : e.instruction.op = op

C33_ImeClearAfterDispatch ==
    Dispatched /\ ~ExecutedOp("RETI") =>
        ~machine.interrupts.interrupt_master_enable

\* Without an enable pending from an EI, the dispatch leaves IME clear
\* unless the handler starts with RETI.
C33_ImeClearWithoutPendingEnable ==
    /\ Dispatched /\ ~Pre.interrupts.interrupt_master_enable_delayed
    /\ ~ExecutedOp("RETI")
    => ~machine.interrupts.interrupt_master_enable

\* EI ran with IME set, the next step dispatched, the handler began with
\* NOP, and IME is set again.
C33_EnableSurvivesDispatch ==
    /\ Dispatched /\ StepBeforeRan("EI")
    /\ Pre.interrupts.interrupt_master_enable
    /\ ExecutedOp("NOP")
    /\ machine.interrupts.interrupt_master_enable

----------------------------------------------------------------------------
(* C34: output compositing pops one pixel from each FIFO only on dots where *)
(* both FIFOs are non-empty; if the object pixel's colour index is 0 the    *)
(* background/window colour is shown through the background palette,        *)
(* otherwise the object colour is shown through the object palette selected *)
(* by the sprite's attribute bit (object palette 0 when attribute bit 4 is  *)
(* 0, object palette 1 when it is 1).                                        *)

\* The tick just made wrote a pixel.
PixelWritten ==
    /\ PpuTicked
    /\ machine.ppu.drawn_pixels_on_current_row
          = Pre.ppu.drawn_pixels_on_current_row + 1

WrittenPixel == CHOOSE p \in machine.ppu.obs_pixel : TRUE

\* A pixel was popped from a FIFO by the tick just made: the FIFO is shorter,
\* or was refilled in the same tick and gave its first pixel at once.
Popped(before, after) ==
    Len(after) = Len(before) - 1 \/ (Len(before) = 0 /\ Len(after) = 7)

PopsOnlyInPairs ==
    PpuTicked /\ machine.ppu.state = "DrawingPixels"
              /\ Pre.ppu.state = "DrawingPixels" =>
        /\ PixelWritten <=> Popped(Pre.background_window_fetcher.fifo,
                                   machine.background_window_fetcher.fifo)
        /\ PixelWritten <=> Popped(Pre.object_fetcher.fifo,
                                   machine.object_fetcher.fifo)

C34_ObjectPixelUsesItsPalette ==
    /\ PopsOnlyInPairs
    /\ PixelWritten =>
          WrittenPixel.rgba =
             pixel_code_to_rgba(
                selected_pixel(WrittenPixel.bgw_pixel, WrittenPixel.obj_pixel),
                selected_palette_by_attribute(machine, WrittenPixel.obj_pixel))

\* What the mixing does: an opaque object pixel always goes through object
\* palette 0.
C34_ObjectPixelUsesPalette0 ==
    /\ PopsOnlyInPairs
    /\ PixelWritten =>
          WrittenPixel.rgba =
             pixel_code_to_rgba(
                selected_pixel(WrittenPixel.bgw_pixel, WrittenPixel.obj_pixel),
                IF WrittenPixel.obj_pixel.color = 0
                THEN background_palette_data(machine)
                ELSE object_palette_0(machine))

\* An opaque pixel of a sprite with attribute bit 4 set was written in the
\* shade object palette 0 gives its colour, not the shade of palette 1.
C34_Palette1PixelShownThroughPalette0 ==
    /\ PixelWritten
    /\ WrittenPixel.obj_pixel.color # 0
    /\ WrittenPixel.obj_pixel.palette = "ObjectPalette1"
    /\ WrittenPixel.rgba = pixel_code_to_rgba(WrittenPixel.obj_pixel.color,
                                              object_palette_0(machine))
    /\ WrittenPixel.rgba # pixel_code_to_rgba(WrittenPixel.obj_pixel.color,
                                              object_palette_1(machine))

----------------------------------------------------------------------------
(* C35: at the OAM-scan to pixel-transfer boundary the PPU examines all 40  *)
(* OAM entries in OAM order and selects the first ones, at most 10, whose Y *)
(* range (Y-16 through Y-16+7) contains the current LY; the selected list   *)
(* never holds more than 10 sprites, never holds a sprite that does not     *)
(* overlap the scanline, and never skips an overlapping sprite while fewer  *)
(* than 10 are selected.                                                     *)

\* The tick just made ended the OAM scan.
ScanEnded ==
    /\ PpuTicked /\ Pre.ppu.state = "OAMScan"
    /\ machine.ppu.state = "DrawingPixels"

OamY(m, entry) == load(m, OAM_ADDRESS + 4 * entry)

\* The entries of the 40 whose rows contain LY, as OAM stood at the tick.
Overlapping ==
    {entry \in 0..39 :
        /\ OamY(Pre, entry) - 16 <= Pre.ppu.lcd_y_coord
        /\ Pre.ppu.lcd_y_coord <= OamY(Pre, entry) - 16 + 7}

\* The place of an overlapping entry among the overlapping entries.
OamRank(entry) == Cardinality({e \in Overlapping : e < entry}) + 1

C35_FirstTenOverlappingSprites ==
    /\ Len(machine.object_fetcher.selected_objects) <= 10
    /\ ScanEnded =>
          /\ Len(machine.object_fetcher.selected_objects)
                = (IF Cardinality(Overlapping) > 10 THEN 10
                   ELSE Cardinality(Overlapping))
          /\ \A entry \in Overlapping :
                OamRank(entry) <= 10 =>
                   machine.object_fetcher.selected_objects[OamRank(entry)]
                      = Sprite(Pre, 4 * entry)

\* Eleven entries overlap, the third of twelve does not: the ten selected
\* are entries 0, 1 and 3..10.
C35_Witness ==
    /\ ScanEnded /\ Cardinality(Overlapping) = 10
    /\ 0 \in Overlapping /\ 2 \notin Overlapping /\ 10 \in Overlapping
    /\ machine.object_fetcher.selected_objects[3] = Sprite(Pre, 12)

\* More than ten entries overlap and the eleventh is left out.
C35_WitnessEleven ==
    /\ ScanEnded /\ Cardinality(Overlapping) = 11
    /\ Len(machine.object_fetcher.selected_objects) = 10

----------------------------------------------------------------------------
(* C36: after every PPU tick with the LCD enabled, STAT bits 1..0 equal the *)
(* number of the PPU's current mode (2 = OAM scan, 3 = pixel transfer,      *)
(* 0 = horizontal blank, 1 = vertical blank).                                *)

ModeNumber(state) ==
    CASE state = "OAMScan" -> 2
      [] state = "DrawingPixels" -> 3
      [] state = "HorizontalBlank" -> 0
      [] state = "VerticalBlank" -> 1

C36_StatModeBitsFollowMode ==
    PpuTicked => machine.ppu.lcd_status % 4 = ModeNumber(machine.ppu.state)

\* No tick changes STAT bits 1..0.
C36_TickLeavesModeBitsAlone ==
    PpuTicked => machine.ppu.lcd_status % 4 = Pre.ppu.lcd_status % 4

\* Vertical blank with the mode bits still reading 2.
C36_ModeBitsStaleInVBlank ==
    /\ PpuTicked /\ machine.ppu.state = "VerticalBlank"
    /\ machine.ppu.lcd_status % 4 = 2

----------------------------------------------------------------------------
(* The first scanline with either setting of the LY override.  The machine  *)
(* is constructed with fix_ly off or on (machine.rs:98, 116), the guest     *)
(* switches the LCD on, and the PPU is ticked one dot at a time.            *)

MaxOverrideDots == 500

InitOverride ==
    /\ machine \in
         {[write_u8([Machine_new(RomInformation("ROMOnly", "NoRAM", 2))
                     EXCEPT !.ppu = PPU_new(fix_ly)], LCDC_ADDRESS, 145)
           EXCEPT !.obs_writes = << >>] : fix_ly \in BOOLEAN}
    /\ last = [kind |-> "init", pre |-> {}, off_dots |-> 0]
    /\ steps = 0
    /\ build = "debug"
    /\ program = {}
    /\ app = ApplicationState_new({})

\* One dot.
OverrideTick ==
    /\ steps < MaxOverrideDots /\ ~machine.panicked
    /\ PpuOp("tick", PPU_tick(machine), 1, 0)

SpecOverride == InitOverride /\ [][OverrideTick]_vars

----------------------------------------------------------------------------
(* C37: every pixel the PPU outputs is written inside the 160x144 RGBA      *)
(* framebuffer: at each pixel write the column is below 160 and the row     *)
(* used is below 144, so the write never indexes past the end of the        *)
(* buffer, for either setting of the LY override option (fix_ly, under      *)
(* which reads of LY always return 144).                                     *)

\* The pixel written last lies inside the framebuffer, and no write aborted.
PixelWritesInside ==
    /\ ~machine.panicked
    /\ \A p \in machine.ppu.obs_pixel :
          /\ p.x < LCD_HORIZONTAL_PIXEL_COUNT
          /\ p.y < LCD_VERTICAL_PIXEL_COUNT

C37_PixelWritesInsideFramebuffer == PixelWritesInside

\* With the override off every write is inside.
C37_InsideWithoutOverride ==
    ~machine.ppu.fix_ly_for_gb_doctor => PixelWritesInside

\* With the override on the first pixel write of the first scanline is
\* aimed at row 144 and aborts.
C37_OverrideWritesPastTheEnd ==
    /\ machine.panicked /\ machine.ppu.fix_ly_for_gb_doctor
    /\ Pre.ppu.state = "DrawingPixels"
    /\ Pre.ppu.drawn_pixels_on_current_row = 0
    /\ Pre.ppu.lcd_y_coord = 0

----------------------------------------------------------------------------
(* C38: for an MBC1 cartridge, whatever values the guest writes to the      *)
(* bank-select and banking-mode registers, every read in 0x4000-0x7FFF      *)
(* indexes inside the cartridge ROM buffer (the effective bank number is    *)
(* always below the cartridge's ROM bank count), so no sequence of mapper   *)
(* writes followed by a read can abort the emulator.                         *)

BankRead == last.kind = "read"

\* The registers select a bank the image holds.
BankInsideRom(m) == SelectedBank(m) < m.rom_information.rom_banks

C38_BankedReadStaysInsideRom ==
    /\ BankInsideRom(machine)
    /\ BankRead => ~machine.panicked

\* The read aborts exactly when the selected bank lies outside the image.
C38_ReadAbortsOutsideRom ==
    BankRead => (machine.panicked <=> ~BankInsideRom(Pre))

\* An image with all 128 banks is never read outside.
C38_FullImageNeverAborts ==
    machine.rom_information.rom_banks = 128 =>
        BankInsideRom(machine) /\ ~machine.panicked

\* Bank 5 of a 4-bank image was selected and the read of the window aborted.
C38_ReadOutsideRomAborted ==
    /\ BankRead /\ machine.panicked
    /\ Pre.rom_information.rom_banks = 4 /\ SelectedBank(Pre) = 5

----------------------------------------------------------------------------
(* C39: INC [HL] computes the flags from its operand exactly as INC r8 does *)
(* for the same operand value: Z is set iff the incremented byte is 0, N is *)
(* cleared, H is set iff there is a carry out of bit 3, and C is left       *)
(* unchanged.                                                                *)

RanIncMHL ==
    last.kind = "execute" /\ ~machine.panicked /\ ExecutedOp("INC_mHL")

\* The byte at [HL] before the instruction.
IncOperand == read_u8(Pre, Pre.cpu.registers.hl).value

\* F after INC B with the operand in B and the flags of before.
FlagsOfIncR8 ==
    read_f(inc_r8(write_r8(Pre.cpu.registers, "B", IncOperand), "B"))

C39_IncMHLSetsFlagsAsIncR8 ==
    RanIncMHL =>
        /\ read_f(machine.cpu.registers) = FlagsOfIncR8
        /\ FlagsAre(U8(IncOperand + 1) = 0, FALSE, IncOperand % 16 = 15,
                    read_flag(Pre.cpu.registers, "C"))

\* INC [HL] stores the incremented byte and leaves F as it was.
C39_IncMHLLeavesFlagsAlone ==
    RanIncMHL =>
        /\ read_u8(machine, Pre.cpu.registers.hl).value = U8(IncOperand + 1)
        /\ read_f(machine.cpu.registers) = read_f(Pre.cpu.registers)

\* The byte went from 0 to 1 and Z, N and H are still set.
C39_StaleFlagsAfterIncMHL ==
    /\ RanIncMHL /\ IncOperand = 0
    /\ read_u8(machine, Pre.cpu.registers.hl).value = 1
    /\ FlagsAre(TRUE, TRUE, TRUE, TRUE)

----------------------------------------------------------------------------
(* DAA executed on every accumulator value under every combination of the   *)
(* flags.  The decoder of this tree builds no DAA (decode.rs has no arm for *)
(* 0x27), so the instruction is handed to Instruction::execute directly.    *)

MaxDaaOps == 1

InitDaa ==
    /\ \E a \in 0..255, f \in {16 * flags : flags \in 0..15} :
          machine = [Machine_new(RomInformation("ROMOnly", "NoRAM", 2))
                     EXCEPT !.dmg_boot_rom = 1,
                            !.cpu.registers.af = a * 256 + f,
                            !.cpu.registers.pc = 49152]
    /\ last = NoOp
    /\ steps = 0
    /\ build = "debug"
    /\ program = {}
    /\ app = ApplicationState_new({})

ExecuteDaa ==
    /\ steps < MaxDaaOps
    /\ ExecuteAlu(Instruction("DAA", "", "", 0, 1))

SpecDaa == InitDaa /\ [][ExecuteDaa]_vars

----------------------------------------------------------------------------
(* C40: after DAA, the Z flag is set exactly when the resulting value of A  *)
(* is 0x00, for every value of A and every combination of the N, H and C    *)
(* flags before the instruction.                                             *)

RanDaa == last.kind = "alu" /\ ExecutedOp("DAA")

C40_DaaZeroFlagFollowsA ==
    RanDaa =>
        (read_flag(machine.cpu.registers, "Z")
            <=> read_a(machine.cpu.registers) = 0)

\* Z follows A whenever the adjusted value did not pass 0xFF.
C40_DaaZeroFlagWithoutOverflow ==
    RanDaa /\ daa_data(read_a(Pre.cpu.registers),
                       read_flag(Pre.cpu.registers, "N"),
                       read_flag(Pre.cpu.registers, "H"),
                       read_flag(Pre.cpu.registers, "C")) < 256 =>
        (read_flag(machine.cpu.registers, "Z")
            <=> read_a(machine.cpu.registers) = 0)

\* 0x9A after an addition is adjusted to 0x00 with carry, and Z is clear.
C40_DaaZeroResultWithoutZ ==
    /\ RanDaa /\ read_a(Pre.cpu.registers) = 154
    /\ read_f(Pre.cpu.registers) = 0
    /\ read_a(machine.cpu.registers) = 0
    /\ FlagsAre(FALSE, FALSE, TRUE, TRUE)

====
